---- MODULE Spec2Model ----
(***************************************************************************)
(* Webhooks.trigger of use-dynamodb-webhooks (src/index.ts): validation of *)
(* the TriggerInput, the build/send/record cycle of one delivery attempt,  *)
(* the retry decision with its capped backoff, and the two catch blocks.   *)
(* The HTTP transport and the indexed store are the environment: the       *)
(* transport answers each call with an ok response, a non-ok response or   *)
(* an exception, and each store put either succeeds or raises.             *)
(* createFetchRequest is also modelled as a function of its own, and       *)
(* fetchLogs and clearLogs as operations on the same store.                *)
(***************************************************************************)
EXTENDS Integers, Sequences, FiniteSets, TLC

VARIABLES
    pc,         \* position of the trigger call chain
    input,      \* the TriggerInput the caller passed
    cur,        \* the input of the innermost trigger invocation (input, then args)
    args,       \* the validated arguments of the innermost invocation
    retries,    \* the retries parameter / local of the innermost invocation
    response,   \* the transport's response of the current attempt
    err,        \* the exception caught by the inner catch block
    logs,       \* the records the store holds, in write order
    result,     \* the record the call resolved to
    error,      \* the error the call rejected with
    uuids,      \* number of ids generated by uuid()
    attempts,   \* number of attempts started (entries into the inner try block)
    fetchCalls, \* number of calls of the transport (fetch)
    putCalls,   \* number of calls of the store's put
    putFails,   \* number of those calls that raised
    outcomes,   \* per attempt, how its build/send step ended
    waits,      \* the backoff timers set, in order
    sent,       \* what the transport was last called with: url and options
    now,        \* the clock new Date() reads
    req,        \* the request createFetchRequest is called with
    wire,       \* what createFetchRequest returned for req
    fetchInput, \* the FetchLogsInput of the latest fetchLogs call
    plan,       \* the query options that call handed to the store
    page,       \* what that call resolved to or rejected with
    pages,      \* the pagination that call belongs to: the store it started on,
                \* its filters, and the items of its pages so far
    cleared,    \* the latest clearLogs call: its namespace and what it resolved to
    partial,    \* the log input putLog is called with
    shaped,     \* what that putLog call resolved to or rejected with
    reshaped,   \* what logShape returned for the record putLog resolved to
    calls       \* the trigger calls in flight at once: the locals of each

\* the state of trigger other than the store and the clock
callVars == <<pc, input, cur, args, retries, response, err, result, error, uuids,
              attempts, fetchCalls, putCalls, putFails, outcomes, waits, sent>>

buildVars == <<req, wire>>

queryVars == <<fetchInput, plan, page, pages>>

\* the state of the operations other than trigger
shapeVars == <<partial, shaped, reshaped>>

libVars == <<buildVars, queryVars, cleared, shapeVars, calls>>

vars == <<pc, input, cur, args, retries, response, err, logs, result, error,
          uuids, attempts, fetchCalls, putCalls, putFails, outcomes, waits,
          sent, now, libVars>>

----------------------------------------------------------------------------
(* Schemas *)

\* request.shape.method
Methods == {"DELETE", "GET", "HEAD", "POST", "PUT"}

\* triggerInput.retryLimit: z.number().min(0).max(10).default(3)
MinRetryLimit == 0
MaxRetryLimit == 10
DefaultRetryLimit == 3

\* the fallback of `args.retryLimit || 3`
FallbackRetryLimit == 3

\* setTimeout(resolve, Math.min(500 * retries, 3000))
BackoffStep == 500
BackoffCap == 3000

\* the synthetic response status of the inner catch block
CatchStatus == 500

\* new HttpError(400, 'Validation Error', ...)
ValidationStatus == 400

\* JavaScript's null
Null == [null |-> TRUE]

\* a URL string by its parts as written: protocol "//" host path "?" query hash.
\* query is the sequence of <<key, value>> pairs (no "?" is written when it is
\* empty), path is "" when the string has no path, hash is "" or "#...".
Url(protocol, host, path, query, hash) ==
    [protocol |-> protocol, host |-> host, path |-> path, query |-> query,
     hash |-> hash]

\* request.shape.url: z.string().url() accepts exactly the strings that parse as a URL
IsUrl(u) == u.protocol # ""

WellFormedUrls == {Url("https:", "httpbin.org", "/anything", <<>>, "")}
MalformedUrls == {Url("", "not a url", "", <<>>, "")}

\* header names the Headers constructor accepts (HTTP tokens) and one it rejects
TokenHeaderNames == {"content-type", "Content-Type"}
HeaderMaps == {("content-type" :> "application/json"), ("bad name" :> "x")}

Fields == {"namespace", "requestUrl", "requestMethod", "retryLimit", "requestHeaders"}

Restrict(r, S) == [f \in S |-> r[f]]

\* the TriggerInputs a caller passes: every field present or absent, present
\* fields well-formed or not
FullInputs ==
    [namespace : {"spec"},
     requestUrl : WellFormedUrls \cup MalformedUrls,
     requestMethod : Methods \cup {"PATCH"},
     retryLimit : (MinRetryLimit - 1) .. (MaxRetryLimit + 1),
     requestHeaders : HeaderMaps]

Inputs == {Restrict(full, present) : full \in FullInputs, present \in SUBSET Fields}

Has(in, f) == f \in DOMAIN in

\* Issues with the range of retryLimit left unchecked (min/max dropped)
IssuesNoRange(in) ==
    {f \in {"namespace"} : ~Has(in, f)}
    \cup {f \in {"requestUrl"} : ~Has(in, f) \/ ~IsUrl(in[f])}
    \cup {f \in {"requestMethod"} : Has(in, f) /\ in[f] \notin Methods}

\* the paths of the issues triggerInput.parseAsync reports (ZodError.errors)
Issues(in) ==
    {f \in {"namespace"} : ~Has(in, f)}
    \cup {f \in {"requestUrl"} : ~Has(in, f) \/ ~IsUrl(in[f])}
    \cup {f \in {"requestMethod"} : Has(in, f) /\ in[f] \notin Methods}
    \cup {f \in {"retryLimit"} :
            Has(in, f) /\ (in[f] < MinRetryLimit \/ in[f] > MaxRetryLimit)}

\* the value triggerInput.parseAsync resolves to: defaults filled in, optional
\* fields without a default left absent
ParseTriggerInput(in) ==
    [f \in DOMAIN in \cup {"metadata", "requestMethod", "retryLimit"} |->
        IF Has(in, f) THEN in[f]
        ELSE IF f = "metadata" THEN <<>>
        ELSE IF f = "requestMethod" THEN "GET" ELSE DefaultRetryLimit]

----------------------------------------------------------------------------
(* Values *)

None == [none |-> TRUE]

Last(s) == s[Len(s)]

Min(a, b) == IF a <= b THEN a ELSE b

\* what the transport resolves to: { headers, ok, status, text() }
Responses ==
    {[ok |-> TRUE, status |-> 200, headers |-> ("content-type" :> "application/json"),
      body |-> "{\"success\":true}"],
     [ok |-> FALSE, status |-> 404, headers |-> ("content-type" :> "application/json"),
      body |-> "{\"error\":\"Not Found\"}"]}

\* what fetch rejects with, what the Headers constructor throws, what the store raises
FetchError == [name |-> "Error", message |-> "FAIL to fetch"]
HeadersError == [name |-> "TypeError", message |-> "invalid header name"]
StoreError == [name |-> "StoreError", message |-> "put failed"]

\* new HttpError(400, 'Validation Error', { context: err.errors })
ValidationError(issues) ==
    [status |-> ValidationStatus, message |-> "Validation Error", context |-> issues]

\* `args.f || null` of an optional, nullable object field
OrNull(a, f) == IF Has(a, f) THEN a[f] ELSE Null

\* createFetchRequest throws when new Headers(request.headers || {}) rejects a name
BuildThrows(a) ==
    /\ OrNull(a, "requestHeaders") # Null
    /\ \E n \in DOMAIN a.requestHeaders : n \notin TokenHeaderNames

----------------------------------------------------------------------------
(* createFetchRequest *)

\* the media types createFetchRequest looks for
FormType == "application/x-www-form-urlencoded"
MultipartType == "multipart/form-data"

\* String.prototype.toLowerCase on the strings of the model
ToLower(str) ==
    CASE str = "Content-Type" -> "content-type"
      [] str = "Application/X-WWW-Form-Urlencoded" -> FormType
      [] str = "Multipart/Form-Data" -> MultipartType
      [] OTHER -> str

\* _.includes(str, needle): a case-sensitive substring test, false when there
\* is nothing to search
Includes(str, needle) ==
    /\ str # ""
    /\ <<str, needle>> \in
          {<<FormType, FormType>>,
           <<"application/x-www-form-urlencoded; charset=utf-8", FormType>>,
           <<MultipartType, MultipartType>>,
           <<"multipart/form-data; boundary=x", MultipartType>>}

\* the keys of an object, an object being the sequence of its <<key, value>>
\* entries in insertion order
Keys(obj) == {obj[i][1] : i \in 1 .. Len(obj)}

\* obj[key] = value: an existing key keeps its place, a new key is appended
Assign(obj, key, value) ==
    IF key \in Keys(obj)
    THEN [i \in 1 .. Len(obj) |-> IF obj[i][1] = key THEN <<key, value>> ELSE obj[i]]
    ELSE Append(obj, <<key, value>>)

\* { ...obj, ...more }, also Object.fromEntries(more) for obj = {}
RECURSIVE Spread(_, _)
Spread(obj, more) ==
    IF more = <<>> THEN obj
    ELSE Spread(Assign(obj, Head(more)[1], Head(more)[2]), Tail(more))

\* new URL(str): pathname is "/" when the string has no path
ParseUrl(u) ==
    [protocol |-> u.protocol, host |-> u.host,
     pathname |-> IF u.path = "" THEN "/" ELSE u.path,
     searchParams |-> u.query, hash |-> u.hash]

\* new Headers(init): names are lower-cased, values kept
NewHeaders(init) ==
    [n \in {ToLower(k) : k \in DOMAIN init} |->
        init[CHOOSE k \in DOMAIN init : ToLower(k) = n]]

\* headers.get(name); the null of an absent header is the empty string here,
\* which _.includes searches the same way (nothing is found in either)
HeadersGet(headers, name) ==
    IF ToLower(name) \in DOMAIN headers THEN headers[ToLower(name)] ELSE ""

\* a JavaScript object: its entries, <<key, value>> pairs in insertion order
Object(entries) == [object |-> entries]

\* qs.stringify(obj, { addQueryPrefix: false }), JSON.stringify(obj), and the
\* FormData with one field appended per key
FormBody(obj) == [kind |-> "form", entries |-> obj]
JsonBody(obj) == [kind |-> "json", entries |-> obj]
MultipartBody(obj) == [kind |-> "multipart", entries |-> obj]

\* createFetchRequest in which the query parameters of the URL override the body
CreateFetchRequestUrlWins(r) ==
    LET headers == NewHeaders(IF r.headers = Null THEN <<>> ELSE r.headers)
        contentType == HeadersGet(headers, "content-type")
        url == ParseUrl(r.url)
    IN  IF r.method \in {"POST", "PUT"}
        THEN [body |-> IF r.body # Null /\ Len(r.body.object) > 0
                       THEN IF Includes(contentType, FormType) THEN FormBody(r.body.object)
                            ELSE IF Includes(contentType, MultipartType)
                                 THEN MultipartBody(r.body.object)
                                 ELSE JsonBody(r.body.object)
                       ELSE Null,
              headers |-> headers, method |-> r.method, url |-> r.url]
        ELSE [body |-> Null, headers |-> headers, method |-> r.method,
              url |-> Url(url.protocol, url.host, url.pathname,
                          Spread(IF r.body = Null THEN <<>> ELSE r.body.object,
                                 Spread(<<>>, url.searchParams)), "")]

\* createFetchRequest(request): POST and PUT keep the URL and encode a non-empty
\* body by the content-type header; the other methods rebuild the URL from
\* protocol, host, pathname and the query string of the URL's parameters spread
\* with the body
CreateFetchRequest(r) ==
    LET headers == NewHeaders(IF r.headers = Null THEN <<>> ELSE r.headers)
        contentType == HeadersGet(headers, "content-type")
        url == ParseUrl(r.url)
    IN  IF r.method \in {"POST", "PUT"}
        THEN [body |-> IF r.body # Null /\ Len(r.body.object) > 0
                       THEN IF Includes(contentType, FormType) THEN FormBody(r.body.object)
                            ELSE IF Includes(contentType, MultipartType)
                                 THEN MultipartBody(r.body.object)
                                 ELSE JsonBody(r.body.object)
                       ELSE Null,
              headers |-> headers, method |-> r.method, url |-> r.url]
        ELSE [body |-> Null, headers |-> headers, method |-> r.method,
              url |-> Url(url.protocol, url.host, url.pathname,
                          Spread(Spread(<<>>, url.searchParams),
                                 IF r.body = Null THEN <<>> ELSE r.body.object), "")]

\* the request trigger hands to createFetchRequest
RequestOf(a) ==
    [body |-> OrNull(a, "requestBody"),
     headers |-> OrNull(a, "requestHeaders"),
     method |-> a.requestMethod,
     url |-> a.requestUrl]

\* what trigger calls fetch with: the body only when there is one and the method
\* is POST or PUT
FetchCall(w) ==
    [url |-> w.url, method |-> w.method, headers |-> w.headers,
     body |-> IF w.body # Null /\ w.method \in {"POST", "PUT"} THEN w.body ELSE Null]

----------------------------------------------------------------------------
(* Log records *)

\* log.retryLimit: z.number().default(3)
LogDefaultRetryLimit == 3

\* LogParse whose defaults replace the values supplied
LogParseDefaultsWin(in, t) ==
    [__createdAt |-> t, __updatedAt |-> t, metadata |-> <<>>, retryCount |-> 0,
     retryLimit |-> LogDefaultRetryLimit] @@ in

\* log.parseAsync(in) at time t, and zDefault(log, in): absent fields get their
\* defaults, present fields keep their values
LogParse(in, t) ==
    in @@ [__createdAt |-> t, __updatedAt |-> t, metadata |-> <<>>, retryCount |-> 0,
           retryLimit |-> LogDefaultRetryLimit]

logShape(in, t) == LogParse(in, t)

\* uuid(): the n-th id generated differs from all ids generated before
uuidRepeated(n) == 1

uuid(n) == n + 1

\* the store's put: the item replaces the one with the same (namespace, id), if
\* there is one
StorePut(store, item) ==
    IF \E i \in 1 .. Len(store) :
          store[i].namespace = item.namespace /\ store[i].id = item.id
    THEN [i \in 1 .. Len(store) |->
            IF store[i].namespace = item.namespace /\ store[i].id = item.id
            THEN item ELSE store[i]]
    ELSE Append(store, item)

----------------------------------------------------------------------------
(* fetchLogs: its input schema, the query options it compiles, and the query *)
(* of the store's namespace-createdAt index                                  *)

\* fetchLogsInput.limit: z.number().min(1).default(100)
MinLimit == 1
DefaultLimit == 100

\* the datetimes of the inputs, in the order of their instants; the
\* __createdAt of a record is the number of its instant
DateTimes ==
    <<"2024-01-01T00:00:01Z", "2024-01-01T00:00:02Z", "2024-01-01T00:00:03Z">>

IsDateTime(str) == \E i \in 1 .. Len(DateTimes) : DateTimes[i] = str

Instant(str) == CHOOSE i \in 1 .. Len(DateTimes) : DateTimes[i] = str

\* FetchIssues of a schema that takes from and to only together
FetchIssuesRangeTogether(in) ==
    {f \in {"namespace"} : ~Has(in, f)}
    \cup {f \in {"from", "to"} : Has(in, f) /\ ~IsDateTime(in[f])}
    \cup {f \in {"from", "to"} : Has(in, "from") # Has(in, "to")}
    \cup {f \in {"limit"} : Has(in, f) /\ in[f] < MinLimit}

\* the paths of the issues fetchLogsInput.parseAsync reports
FetchIssues(in) ==
    {f \in {"namespace"} : ~Has(in, f)}
    \cup {f \in {"from", "to"} : Has(in, f) /\ ~IsDateTime(in[f])}
    \cup {f \in {"limit"} : Has(in, f) /\ in[f] < MinLimit}

\* the value fetchLogsInput.parseAsync resolves to
ParseFetchLogsInput(in) ==
    [f \in DOMAIN in \cup {"desc", "limit", "metadata", "startKey"} |->
        IF Has(in, f) THEN in[f]
        ELSE IF f = "desc" THEN FALSE
        ELSE IF f = "limit" THEN DefaultLimit
        ELSE IF f = "metadata" THEN <<>> ELSE Null]

\* the placeholders `#${key}` and `:${key}`
Name(key) == <<"#", key>>
Value(key) == <<":", key>>

\* obj[key]
Get(obj, key) == obj[CHOOSE i \in 1 .. Len(obj) : obj[i][1] = key][2]

\* the conditions `path = :v` and `path BETWEEN :lo AND :hi`, path a sequence
\* of name placeholders joined by dots
Equals(path, v) == [path |-> path, op |-> "=", operands |-> <<v>>]
Between(path, lo, hi) == [path |-> path, op |-> "BETWEEN", operands |-> <<lo, hi>>]

\* concatConditionExpression(a, b): the conditions of a and of b joined by AND,
\* an expression being the sequence of its conditions and '' the empty one
ConcatConditionExpression(a, b) == a \o b

\* BaseOptions without the caller's cursor
BaseOptionsNoStartKey(a) ==
    [attributeNames |-> <<(<<Name("namespace"), "namespace">>)>>,
     attributeValues |-> <<(<<Value("namespace"), a.namespace>>)>>,
     filterExpression |-> <<>>,
     index |-> "namespace-createdAt",
     limit |-> a.limit,
     queryExpression |-> <<Equals(<<Name("namespace")>>, Value("namespace"))>>,
     scanIndexForward |-> IF a.desc THEN FALSE ELSE TRUE,
     startKey |-> Null]

\* the query options fetchLogs starts from
BaseOptions(a) ==
    [attributeNames |-> <<(<<Name("namespace"), "namespace">>)>>,
     attributeValues |-> <<(<<Value("namespace"), a.namespace>>)>>,
     filterExpression |-> <<>>,
     index |-> "namespace-createdAt",
     limit |-> a.limit,
     queryExpression |-> <<Equals(<<Name("namespace")>>, Value("namespace"))>>,
     scanIndexForward |-> IF a.desc THEN FALSE ELSE TRUE,
     startKey |-> a.startKey]

\* if (args.from && args.to) { ... }
WithRange(q, a) ==
    IF Has(a, "from") /\ Has(a, "to")
    THEN [q EXCEPT
            !.attributeNames = Assign(@, Name("__createdAt"), "__createdAt"),
            !.attributeValues =
                Assign(Assign(@, Value("from"), a.from), Value("to"), a.to),
            !.queryExpression =
                ConcatConditionExpression(@,
                    <<Between(<<Name("__createdAt")>>, Value("from"), Value("to"))>>)]
    ELSE q

\* _.forEach(args.metadata, ...) from the i-th entry on: the options and the
\* metadataFilter after the loop
RECURSIVE MetadataLoop(_, _, _, _)
MetadataLoop(q, metadataFilter, metadata, i) ==
    IF i > Len(metadata) THEN [q |-> q, metadataFilter |-> metadataFilter]
    ELSE LET key == metadata[i][1]
             value == metadata[i][2]
         IN  MetadataLoop(
                 [q EXCEPT !.attributeNames = Assign(@, Name(key), key),
                           !.attributeValues = Assign(@, Value(key), value)],
                 Append(metadataFilter,
                        Equals(<<Name("metadata"), Name(key)>>, Value(key))),
                 metadata, i + 1)

\* if (_.size(args.metadata)) { ... }
WithMetadata(q, a) ==
    IF Len(a.metadata) > 0
    THEN LET loop == MetadataLoop(
                 [q EXCEPT !.attributeNames = Assign(@, Name("metadata"), "metadata")],
                 <<>>, a.metadata, 1)
         IN  [loop.q EXCEPT !.filterExpression =
                 ConcatConditionExpression(@, loop.metadataFilter)]
    ELSE q

\* if (args.status) { ... }: a status that is given is 'FAIL' or 'SUCCESS' here
\* (a null one is as good as none)
WithStatus(q, a) ==
    IF Has(a, "status")
    THEN [q EXCEPT
            !.attributeNames = Assign(@, Name("status"), "status"),
            !.attributeValues = Assign(@, Value("status"), a.status),
            !.filterExpression =
                ConcatConditionExpression(@,
                    <<Equals(<<Name("status")>>, Value("status"))>>)]
    ELSE q

\* the queryOptions fetchLogs hands to this.db.logs.query
QueryOptions(a) == WithStatus(WithMetadata(WithRange(BaseOptions(a), a), a), a)

\* the index keys of a record: _.pick(item, ['__createdAt', 'id', 'namespace'])
KeyOf(item) ==
    [__createdAt |-> item.__createdAt, id |-> item.id, namespace |-> item.namespace]

\* whether the item satisfies the condition, names and values looked up in the
\* placeholder maps of the options
Holds(cond, item, q) ==
    LET names == [i \in 1 .. Len(cond.path) |-> Get(q.attributeNames, cond.path[i])]
        values == [i \in 1 .. Len(cond.operands) |->
                      Get(q.attributeValues, cond.operands[i])]
    IN  IF cond.op = "BETWEEN"
        THEN /\ Instant(values[1]) <= item[names[1]]
             /\ item[names[1]] <= Instant(values[2])
        ELSE IF Len(names) = 1 THEN item[names[1]] = values[1]
        ELSE /\ names[2] \in Keys(item[names[1]])
             /\ Get(item[names[1]], names[2]) = values[1]

HoldsAll(expression, item, q) ==
    \A i \in 1 .. Len(expression) : Holds(expression[i], item, q)

\* the items of S in the order of the index: by __createdAt, ascending when
\* forward (the instants of the records of a namespace are distinct)
RECURSIVE ScanOrder(_, _, _)
ScanOrder(store, S, forward) ==
    IF S = {} THEN <<>>
    ELSE LET first == CHOOSE i \in S : \A j \in S :
                          IF forward
                          THEN store[i].__createdAt <= store[j].__createdAt
                          ELSE store[i].__createdAt >= store[j].__createdAt
         IN  <<store[first]>> \o ScanOrder(store, S \ {first}, forward)

\* this.db.logs.query(q): the items the key condition selects are read in index
\* order from the one after startKey, at most limit of them; those that pass
\* the filter are returned, and with them the key of the last item read unless
\* the read reached the end of the selection
StoreQuery(store, q) ==
    LET selected == {i \in 1 .. Len(store) : HoldsAll(q.queryExpression, store[i], q)}
        ordered == ScanOrder(store, selected, q.scanIndexForward)
        After(item) ==
            \/ q.startKey = Null
            \/ IF q.scanIndexForward
               THEN item.__createdAt > q.startKey.__createdAt
               ELSE item.__createdAt < q.startKey.__createdAt
        Passes(item) == HoldsAll(q.filterExpression, item, q)
        rest == SelectSeq(ordered, After)
        read == SubSeq(rest, 1, Min(q.limit, Len(rest)))
        items == SelectSeq(read, Passes)
    IN  [count |-> Len(items),
         items |-> items,
         lastEvaluatedKey |-> IF Len(read) < Len(rest) THEN KeyOf(Last(read)) ELSE Null]

\* `args.retryLimit || 3`: a falsy limit (0) is replaced by 3
EffectiveLimit(a) == IF a.retryLimit = 0 THEN FallbackRetryLimit ELSE a.retryLimit

\* StatusOf with the branches of the conditional swapped
StatusOfSwapped(ok) == IF ok THEN "FAIL" ELSE "SUCCESS"

\* `response.ok ? 'SUCCESS' : 'FAIL'`
StatusOf(ok) == IF ok THEN "SUCCESS" ELSE "FAIL"

\* ShouldRetry that allows one retry past the limit
ShouldRetryOneMore(n, a) == n <= EffectiveLimit(a) + 1

\* ShouldRetry with a strict comparison (one retry short)
ShouldRetryStrict(n, a) == n < EffectiveLimit(a)

\* `retries <= (args.retryLimit || 3)`, retries already incremented
ShouldRetry(n, a) == n <= EffectiveLimit(a)

\* BackoffDelay without the cap
BackoffDelayUncapped(n) == BackoffStep * n

\* Math.min(500 * retries, 3000), retries already incremented
BackoffDelay(n) == Min(BackoffStep * n, BackoffCap)

\* ResponseLog that records the caller's URL instead of the URL fetched
ResponseLogRawUrl(id, a, r, n) ==
    [id |-> id,
     metadata |-> a.metadata,
     namespace |-> a.namespace,
     requestBody |-> OrNull(a, "requestBody"),
     requestHeaders |-> OrNull(a, "requestHeaders"),
     requestMethod |-> a.requestMethod,
     requestUrl |-> a.requestUrl,
     responseBody |-> r.body,
     responseHeaders |-> r.headers,
     responseOk |-> r.ok,
     responseStatus |-> r.status,
     retryCount |-> n,
     retryLimit |-> EffectiveLimit(a),
     status |-> StatusOf(r.ok)]

\* the record of the response path (the putLog call in the try block)
ResponseLog(id, a, r, n) ==
    [id |-> id,
     metadata |-> a.metadata,
     namespace |-> a.namespace,
     requestBody |-> OrNull(a, "requestBody"),
     requestHeaders |-> OrNull(a, "requestHeaders"),
     requestMethod |-> CreateFetchRequest(RequestOf(a)).method,
     requestUrl |-> CreateFetchRequest(RequestOf(a)).url,
     responseBody |-> r.body,
     responseHeaders |-> r.headers,
     responseOk |-> r.ok,
     responseStatus |-> r.status,
     retryCount |-> n,
     retryLimit |-> EffectiveLimit(a),
     status |-> StatusOf(r.ok)]

\* the record of the exception path (the putLog call in the inner catch block)
CatchLog(id, a, e) ==
    [id |-> id,
     namespace |-> a.namespace,
     requestBody |-> OrNull(a, "requestBody"),
     requestHeaders |-> OrNull(a, "requestHeaders"),
     requestMethod |-> a.requestMethod,
     requestUrl |-> a.requestUrl,
     responseBody |-> e.message,
     responseHeaders |-> <<>>,
     responseOk |-> FALSE,
     responseStatus |-> CatchStatus,
     retryCount |-> 0,
     retryLimit |-> EffectiveLimit(a),
     status |-> "FAIL"]

----------------------------------------------------------------------------
(* The state after construction: no call made, the store empty *)

InitCall ==
    /\ pc = "idle"
    /\ input = None
    /\ cur = None
    /\ args = None
    /\ retries = 0
    /\ response = None
    /\ err = None
    /\ result = None
    /\ error = None
    /\ uuids = 0
    /\ attempts = 0
    /\ fetchCalls = 0
    /\ putCalls = 0
    /\ putFails = 0
    /\ outcomes = <<>>
    /\ waits = <<>>
    /\ sent = None

InitTrigger ==
    /\ InitCall
    /\ logs = <<>>
    /\ now = 0

\* no request handed to createFetchRequest yet
InitBuild ==
    /\ req = None
    /\ wire = None

\* no fetchLogs and no clearLogs call made yet
InitQuery ==
    /\ fetchInput = None
    /\ plan = None
    /\ page = None
    /\ pages = None

InitClear == cleared = None

\* no putLog call made on its own
InitShape ==
    /\ partial = None
    /\ shaped = None
    /\ reshaped = None

\* the trigger calls a process may have in flight at once
Callers == {1, 2}

\* the locals of a trigger call not made yet
IdleCall ==
    [pc |-> "idle", cur |-> None, args |-> None, retries |-> 0, response |-> None,
     err |-> None, attempts |-> 0, outcomes |-> <<>>, written |-> <<>>,
     result |-> None, error |-> None]

InitCalls == calls = [c \in Callers |-> IdleCall]

Init == InitTrigger /\ InitBuild /\ InitQuery /\ InitClear /\ InitShape /\ InitCalls

\* the caller invokes trigger(in): retries defaults to 0
TriggerCall(in) ==
    /\ pc = "idle"
    /\ pc' = "parse"
    /\ input' = in
    /\ cur' = in
    /\ retries' = 0
    /\ UNCHANGED <<args, response, err, logs, result, error, uuids, attempts,
                   fetchCalls, putCalls, putFails, outcomes, waits>>
    /\ UNCHANGED <<sent, now, libVars>>

\* triggerInput.parseAsync(input) rejects: the outer catch block turns the ZodError
\* into an HttpError 400
ParseFail ==
    /\ pc = "parse"
    /\ Issues(cur) # {}
    /\ pc' = "thrown"
    /\ error' = ValidationError(Issues(cur))
    /\ UNCHANGED <<input, cur, args, retries, response, err, logs, result, uuids,
                   attempts, fetchCalls, putCalls, putFails, outcomes, waits>>
    /\ UNCHANGED <<sent, now, libVars>>

\* triggerInput.parseAsync(input) resolves: the inner try block is entered
ParseOk ==
    /\ pc = "parse"
    /\ Issues(cur) = {}
    /\ args' = ParseTriggerInput(cur)
    /\ attempts' = attempts + 1
    /\ pc' = "send"
    /\ UNCHANGED <<input, cur, retries, response, err, logs, result, error, uuids,
                   fetchCalls, putCalls, putFails, outcomes, waits>>
    /\ UNCHANGED <<sent, now, libVars>>

\* createFetchRequest throws before the transport is called: the inner catch block
BuildFail ==
    /\ pc = "send"
    /\ BuildThrows(args)
    /\ err' = HeadersError
    /\ outcomes' = Append(outcomes, "buildfail")
    /\ pc' = "catch"
    /\ UNCHANGED <<input, cur, args, retries, response, logs, result, error, uuids,
                   attempts, fetchCalls, putCalls, putFails, waits>>
    /\ UNCHANGED <<sent, now, libVars>>

\* fetch resolves to response r and response.text() resolves
SendResponse(r) ==
    /\ pc = "send"
    /\ ~BuildThrows(args)
    /\ fetchCalls' = fetchCalls + 1
    /\ sent' = FetchCall(CreateFetchRequest(RequestOf(args)))
    /\ response' = r
    /\ outcomes' = Append(outcomes, IF r.ok THEN "ok" ELSE "nonok")
    /\ pc' = "record"
    /\ UNCHANGED <<input, cur, args, retries, err, logs, result, error, uuids,
                   attempts, putCalls, putFails, waits>>
    /\ UNCHANGED <<now, libVars>>

\* fetch (or response.text()) rejects: the inner catch block
SendRaise ==
    /\ pc = "send"
    /\ ~BuildThrows(args)
    /\ fetchCalls' = fetchCalls + 1
    /\ sent' = FetchCall(CreateFetchRequest(RequestOf(args)))
    /\ err' = FetchError
    /\ outcomes' = Append(outcomes, "raise")
    /\ pc' = "catch"
    /\ UNCHANGED <<input, cur, args, retries, response, logs, result, error, uuids,
                   attempts, putCalls, putFails, waits>>
    /\ UNCHANGED <<now, libVars>>

\* RecordPutOk that writes no record for a response that is retried
RecordPutOkUnlogged ==
    /\ pc = "record"
    /\ uuids' = uuids + 1
    /\ now' = now + 1
    /\ LET put == LogParse(ResponseLog(uuid(uuids), args, response, retries), now)
           rec == logShape(put, now)
       IN
        IF ~response.ok /\ ShouldRetry(retries + 1, args)
        THEN /\ retries' = retries + 1
             /\ waits' = Append(waits, [after |-> attempts,
                                        ms |-> BackoffDelay(retries + 1)])
             /\ pc' = "wait"
             /\ UNCHANGED <<logs, result, putCalls>>
        ELSE /\ logs' = StorePut(logs, put)
             /\ putCalls' = putCalls + 1
             /\ retries' = IF response.ok THEN retries ELSE retries + 1
             /\ pc' = "done"
             /\ result' = rec
             /\ UNCHANGED waits
    /\ UNCHANGED <<input, cur, args, response, err, error, attempts, fetchCalls,
                   putFails, outcomes>>
    /\ UNCHANGED <<sent, libVars>>

\* the try block's putLog resolves; then the retry decision: a non-ok response
\* increments retries and, within the limit, sets the backoff timer, otherwise the
\* record is returned
RecordPutOk ==
    /\ pc = "record"
    /\ uuids' = uuids + 1
    /\ now' = now + 1
    /\ putCalls' = putCalls + 1
    /\ LET put == LogParse(ResponseLog(uuid(uuids), args, response, retries), now)
           rec == logShape(put, now)
       IN
        /\ logs' = StorePut(logs, put)
        /\ IF ~response.ok
           THEN /\ retries' = retries + 1
                /\ IF ShouldRetry(retries + 1, args)
                   THEN /\ waits' = Append(waits, [after |-> attempts,
                                                   ms |-> BackoffDelay(retries + 1)])
                        /\ pc' = "wait"
                        /\ UNCHANGED result
                   ELSE /\ pc' = "done"
                        /\ result' = rec
                        /\ UNCHANGED waits
           ELSE /\ pc' = "done"
                /\ result' = rec
                /\ UNCHANGED <<retries, waits>>
    /\ UNCHANGED <<input, cur, args, response, err, error, attempts, fetchCalls,
                   putFails, outcomes>>
    /\ UNCHANGED <<sent, libVars>>

\* the try block's putLog rejects (the store's put raises): the inner catch block
RecordPutFail ==
    /\ pc = "record"
    /\ uuids' = uuids + 1
    /\ now' = now + 1
    /\ putCalls' = putCalls + 1
    /\ putFails' = putFails + 1
    /\ err' = StoreError
    /\ pc' = "catch"
    /\ UNCHANGED <<input, cur, args, retries, response, logs, result, error,
                   attempts, fetchCalls, outcomes, waits>>
    /\ UNCHANGED <<sent, libVars>>

\* CatchPutOk that applies the retry policy to the exception
CatchPutOkRetrying ==
    /\ pc = "catch"
    /\ uuids' = uuids + 1
    /\ now' = now + 1
    /\ putCalls' = putCalls + 1
    /\ LET put == LogParse(CatchLog(uuid(uuids), args, err), now)
           rec == logShape(put, now)
       IN
        /\ logs' = StorePut(logs, put)
        /\ retries' = retries + 1
        /\ IF ShouldRetry(retries + 1, args)
           THEN /\ waits' = Append(waits, [after |-> attempts,
                                           ms |-> BackoffDelay(retries + 1)])
                /\ pc' = "wait"
                /\ UNCHANGED result
           ELSE /\ pc' = "done"
                /\ result' = rec
                /\ UNCHANGED waits
    /\ UNCHANGED <<input, cur, args, response, err, error, attempts, fetchCalls,
                   putFails, outcomes>>
    /\ UNCHANGED <<sent, libVars>>

\* CatchPutOk of an inner catch block that rethrows instead of recording
CatchRethrow ==
    /\ pc = "catch"
    /\ error' = err
    /\ pc' = "thrown"
    /\ UNCHANGED <<input, cur, args, retries, response, err, logs, result, uuids,
                   attempts, fetchCalls, putCalls, putFails, outcomes, waits>>
    /\ UNCHANGED <<sent, now, libVars>>

\* the inner catch block's putLog resolves: its record is returned
CatchPutOk ==
    /\ pc = "catch"
    /\ uuids' = uuids + 1
    /\ now' = now + 1
    /\ putCalls' = putCalls + 1
    /\ LET put == LogParse(CatchLog(uuid(uuids), args, err), now)
           rec == logShape(put, now)
       IN
        /\ logs' = StorePut(logs, put)
        /\ result' = rec
    /\ pc' = "done"
    /\ UNCHANGED <<input, cur, args, retries, response, err, error, attempts,
                   fetchCalls, putFails, outcomes, waits>>
    /\ UNCHANGED <<sent, libVars>>

\* the inner catch block's putLog rejects: the outer catch block rethrows what is
\* no ZodError
CatchPutFail ==
    /\ pc = "catch"
    /\ uuids' = uuids + 1
    /\ now' = now + 1
    /\ putCalls' = putCalls + 1
    /\ putFails' = putFails + 1
    /\ error' = StoreError
    /\ pc' = "thrown"
    /\ UNCHANGED <<input, cur, args, retries, response, err, logs, result,
                   attempts, fetchCalls, outcomes, waits>>
    /\ UNCHANGED <<sent, libVars>>

\* the backoff timer fires: `return this.trigger(args, retries)`
TimerFires ==
    /\ pc = "wait"
    /\ cur' = args
    /\ pc' = "parse"
    /\ UNCHANGED <<input, args, retries, response, err, logs, result, error, uuids,
                   attempts, fetchCalls, putCalls, putFails, outcomes, waits>>
    /\ UNCHANGED <<sent, now, libVars>>

Next ==
    \/ \E in \in Inputs : TriggerCall(in)
    \/ ParseFail
    \/ ParseOk
    \/ BuildFail
    \/ \E r \in Responses : SendResponse(r)
    \/ SendRaise
    \/ RecordPutOk
    \/ RecordPutFail
    \/ CatchPutOk
    \/ CatchPutFail
    \/ TimerFires

Spec == Init /\ [][Next]_vars

\* every transport call, backoff timer and store call completes: a step that
\* can be taken is taken
SpecLive == Spec /\ WF_vars(Next)

\* trigger calls that differ in the request: URL with and without query
\* parameters, method, body and headers, with and without metadata, with one
\* retry allowed
RequestInputs ==
    {Restrict(full, present) :
        full \in [namespace : {"spec"},
                  requestUrl : WellFormedUrls \cup MalformedUrls \cup
                      {Url("https:", "httpbin.org", "/anything",
                           <<(<<"a", "1">>), (<<"b", "1">>)>>, "")},
                  requestMethod : {"GET", "POST"},
                  requestBody : {Null, Object(<<>>),
                                 Object(<<(<<"a", "1">>), (<<"b", "2">>), (<<"c", "3">>)>>)},
                  requestHeaders : HeaderMaps \cup {("content-type" :> FormType)},
                  metadata : {<<(<<"k", "v">>)>>},
                  retryLimit : {1}],
        present \in {F \in SUBSET (Fields \cup {"requestBody", "metadata"}) :
                        {"namespace", "requestUrl", "retryLimit"} \subseteq F}}

NextRequest ==
    \/ \E in \in RequestInputs : TriggerCall(in)
    \/ ParseFail
    \/ ParseOk
    \/ BuildFail
    \/ \E r \in Responses : SendResponse(r)
    \/ SendRaise
    \/ RecordPutOk
    \/ RecordPutFail
    \/ CatchPutOk
    \/ CatchPutFail
    \/ TimerFires

SpecRequest == Init /\ [][NextRequest]_vars

\* the requests createFetchRequest is applied to: URLs with and without a path,
\* query parameters (one key twice included) and a fragment, every method, the
\* body null, empty and non-empty, and the content-type header absent, under a
\* capitalised name, and with values in lower and mixed case
BuildUrls ==
    {Url("https:", "httpbin.org", path, query, hash) :
        path \in {"", "/anything"},
        query \in {<<>>,
                   <<(<<"a", "1">>), (<<"b", "1">>)>>,
                   <<(<<"d", "1">>), (<<"d", "2">>)>>},
        hash \in {"", "#frag"}}

BuildBodies ==
    {Null, Object(<<>>), Object(<<(<<"a", "1">>), (<<"b", "2">>), (<<"c", "3">>)>>)}

BuildHeaders ==
    {Null,
     ("a" :> "1"),
     ("content-type" :> FormType),
     ("Content-Type" :> "application/x-www-form-urlencoded; charset=utf-8"),
     ("content-type" :> "Application/X-WWW-Form-Urlencoded"),
     ("content-type" :> MultipartType),
     ("content-type" :> "Multipart/Form-Data")}

Requests ==
    [body : BuildBodies, headers : BuildHeaders, method : Methods, url : BuildUrls]

\* createFetchRequest(req) returns
BuildRequest ==
    /\ req # None
    /\ wire = None
    /\ wire' = CreateFetchRequest(req)
    /\ UNCHANGED <<callVars, logs, now, req, queryVars, cleared, shapeVars, calls>>

InitRequests ==
    /\ InitTrigger
    /\ req \in Requests
    /\ wire = None
    /\ InitQuery
    /\ InitClear
    /\ InitShape
    /\ InitCalls

NextBuild == BuildRequest

SpecBuild == InitRequests /\ [][NextBuild]_vars

----------------------------------------------------------------------------
(* fetchLogs over a store that holds records *)

OkResponse == CHOOSE r \in Responses : r.ok
NonOkResponse == CHOOSE r \in Responses : ~r.ok

\* the record a trigger call for the namespace and metadata wrote at instant t
\* on the transport's response r
Stored(id, namespace, t, metadata, r) ==
    LogParse(ResponseLog(id,
                         ParseTriggerInput(
                             [namespace |-> namespace,
                              requestUrl |-> CHOOSE u \in WellFormedUrls : TRUE,
                              metadata |-> metadata]),
                         r, 0),
             t)

\* stores left by earlier calls: none, and three records of one namespace next
\* to one of another
Stores ==
    {<<>>,
     <<Stored(101, "spec", 1, <<(<<"k", "v">>)>>, OkResponse),
       Stored(102, "other", 2, <<(<<"k", "v">>)>>, NonOkResponse),
       Stored(103, "spec", 2, <<(<<"k", "v">>), (<<"j", "w">>)>>, NonOkResponse),
       Stored(104, "spec", 3, <<>>, OkResponse)>>}

FetchFields == {"namespace", "desc", "from", "to", "limit", "metadata", "status"}

\* metadata filters: none, one key, two keys in both orders, and keys that are
\* also names of built-in attributes
MetadataFilters ==
    {<<>>,
     <<(<<"k", "v">>)>>,
     <<(<<"k", "v">>), (<<"j", "w">>)>>,
     <<(<<"j", "w">>), (<<"k", "v">>)>>,
     <<(<<"namespace", "other">>)>>,
     <<(<<"status", "v">>)>>}

FullFetchLogsInputs ==
    [namespace : {"spec", "other"},
     desc : {TRUE},
     from : {DateTimes[2], "yesterday"},
     to : {DateTimes[3]},
     limit : (MinLimit - 1) .. (MinLimit + 1),
     metadata : MetadataFilters,
     status : {"FAIL", "SUCCESS"}]

\* the inputs of a first call: every field present or absent, startKey absent
FetchLogsInputs ==
    {Restrict(full, present) : full \in FullFetchLogsInputs, present \in SUBSET FetchFields}

\* the input of the call that continues the latest one: the same input with the
\* lastEvaluatedKey it returned as startKey
Continuations ==
    IF "lastEvaluatedKey" \in DOMAIN page /\ page.lastEvaluatedKey # Null
    THEN {[f \in DOMAIN fetchInput \cup {"startKey"} |->
              IF f = "startKey" THEN page.lastEvaluatedKey ELSE fetchInput[f]]}
    ELSE {}

\* the input without its cursor
Filters(in) == Restrict(in, DOMAIN in \ {"startKey"})

\* fetchLogs(in): rejects with the ZodError of the input, or compiles the query
\* options, queries the store and resolves to the result with its items shaped
FetchLogs(in) ==
    /\ fetchInput' = in
    /\ IF FetchIssues(in) # {}
       THEN /\ page' = [rejected |-> FetchIssues(in)]
            /\ plan' = None
            /\ pages' = None
       ELSE LET a == ParseFetchLogsInput(in)
                q == QueryOptions(a)
                res == StoreQuery(logs, q)
                out == [res EXCEPT
                          !.items = [i \in 1 .. Len(res.items) |->
                                        logShape(res.items[i], now)]]
            IN  /\ plan' = q
                /\ page' = out
                /\ pages' =
                      IF a.startKey = Null
                      THEN [store |-> logs, filters |-> Filters(in),
                            items |-> out.items]
                      ELSE IF /\ pages # None
                              /\ pages.store = logs
                              /\ pages.filters = Filters(in)
                              /\ in \in Continuations
                           THEN [pages EXCEPT !.items = @ \o out.items]
                           ELSE None
    /\ UNCHANGED <<callVars, logs, now, buildVars, cleared, shapeVars, calls>>

InitStored ==
    /\ InitCall
    /\ logs \in Stores
    /\ now = Len(DateTimes)
    /\ InitBuild
    /\ InitQuery
    /\ InitClear
    /\ InitShape
    /\ InitCalls

\* one pagination: a first call, then the calls that continue it
NextQuery ==
    \E in \in (IF fetchInput = None THEN FetchLogsInputs ELSE Continuations) :
        FetchLogs(in)

SpecQuery == InitStored /\ [][NextQuery]_vars

----------------------------------------------------------------------------
(* clearLogs, and the three operations on one store *)

\* this.db.logs.clear(namespace): every record of the partition is deleted and
\* their number returned
StoreClear(store, namespace) ==
    LET Kept(item) == item.namespace # namespace
        left == SelectSeq(store, Kept)
    IN  [store |-> left, count |-> Len(store) - Len(left)]

\* clearLogs that clears the whole table
ClearLogsAll(namespace) ==
    /\ logs' = <<>>
    /\ cleared' = [namespace |-> namespace, count |-> Len(logs),
                   held |-> logs, left |-> <<>>]
    /\ UNCHANGED <<callVars, now, buildVars, queryVars, shapeVars, calls>>

\* clearLogs(namespace): resolves to what the store's clear resolves to; held
\* and left are the records of the store before and after the call
ClearLogs(namespace) ==
    /\ logs' = StoreClear(logs, namespace).store
    /\ cleared' = [namespace |-> namespace,
                   count |-> StoreClear(logs, namespace).count,
                   held |-> logs,
                   left |-> StoreClear(logs, namespace).store]
    /\ UNCHANGED <<callVars, now, buildVars, queryVars, shapeVars, calls>>

Namespaces == {"spec", "other"}

\* trigger calls into either namespace with one retry allowed, one call that
\* fails validation and one whose headers cannot be built
StoreInputs ==
    {[namespace |-> ns, requestUrl |-> u, retryLimit |-> 1] :
        ns \in Namespaces, u \in WellFormedUrls \cup MalformedUrls}
    \cup {[namespace |-> "spec", requestUrl |-> u, requestHeaders |-> h] :
            u \in WellFormedUrls, h \in HeaderMaps}

\* the unfiltered query of a namespace
UnfilteredInputs == {[namespace |-> ns] : ns \in Namespaces}

\* a trigger call, with fetchLogs and clearLogs calls before, during and after it
NextStore ==
    \/ \E in \in StoreInputs : TriggerCall(in)
    \/ ParseFail
    \/ ParseOk
    \/ BuildFail
    \/ \E r \in Responses : SendResponse(r)
    \/ SendRaise
    \/ RecordPutOk
    \/ RecordPutFail
    \/ CatchPutOk
    \/ CatchPutFail
    \/ TimerFires
    \/ \E in \in UnfilteredInputs : FetchLogs(in)
    \/ \E ns \in Namespaces : ClearLogs(ns)

SpecStore == InitStored /\ [][NextStore]_vars

----------------------------------------------------------------------------
(* fetchLogs of the versions that take an id selector.  A string that is
   matched by prefix or compared in key order is the sequence of its
   characters, a character a number. *)

\* '\u0000' and '\uffff', below and above every character of an id
MinChar == 0
MaxChar == 9

\* encodeTime(new Date(str).getTime()): fixed width, in the order of the instants
EncodeTime(str) == <<Instant(str)>>

\* a truthy string
Truthy(str) == str # <<>>

\* begins_with(str, prefix)
StartsWith(str, prefix) ==
    Len(prefix) <= Len(str) /\ SubSeq(str, 1, Len(prefix)) = prefix

\* a <= b in the order of the sort key
RECURSIVE LexLeq(_, _)
LexLeq(a, b) ==
    IF a = <<>> THEN TRUE
    ELSE IF b = <<>> THEN FALSE
    ELSE IF a[1] # b[1] THEN a[1] < b[1]
    ELSE LexLeq(Tail(a), Tail(b))

\* the condition `begins_with(path, :v)`
BeginsWith(path, v) == [path |-> path, op |-> "begins_with", operands |-> <<v>>]

\* the value webhooksFetchLogsInput.parseAsync resolves to (idPrefix a boolean)
ParseFetchLogsInputById(in) ==
    [f \in (DOMAIN in \ {"metadata"}) \cup {"desc", "idPrefix", "limit", "startKey"} |->
        IF Has(in, f) THEN in[f]
        ELSE IF f = "desc" THEN FALSE
        ELSE IF f = "idPrefix" THEN TRUE
        ELSE IF f = "limit" THEN DefaultLimit ELSE Null]

\* the placeholder maps of the version with an id: from/to, then status
PlaceholdersById(a) ==
    LET ranged ==
            IF Has(a, "from") /\ Has(a, "to")
            THEN [attributeNames |-> <<(<<Name("__createdAt"), "__createdAt">>)>>,
                  attributeValues |-> <<(<<Value("from"), a.from>>),
                                        (<<Value("to"), a.to>>)>>]
            ELSE [attributeNames |-> <<>>, attributeValues |-> <<>>]
    IN  IF Has(a, "status")
        THEN [attributeNames |-> Assign(ranged.attributeNames, Name("status"), "status"),
              attributeValues |-> Assign(ranged.attributeValues, Value("status"), a.status)]
        ELSE ranged

\* the queryOptions the version with an id hands to this.db.logs.query
QueryOptionsById(a) ==
    LET maps == PlaceholdersById(a)
        range == IF Has(a, "from") /\ Has(a, "to")
                 THEN <<Between(<<Name("__createdAt")>>, Value("from"), Value("to"))>>
                 ELSE <<>>
        status == IF Has(a, "status")
                  THEN <<Equals(<<Name("status")>>, Value("status"))>>
                  ELSE <<>>
    IN  IF Has(a, "id") /\ Truthy(a.id)
        THEN [attributeNames |-> maps.attributeNames,
              attributeValues |-> maps.attributeValues,
              filterExpression |-> ConcatConditionExpression(range, status),
              item |-> [namespace |-> a.namespace, id |-> a.id],
              limit |-> a.limit,
              prefix |-> a.idPrefix,
              scanIndexForward |-> IF a.desc THEN FALSE ELSE TRUE,
              startKey |-> a.startKey]
        ELSE [attributeNames |-> maps.attributeNames,
              attributeValues |-> maps.attributeValues,
              filterExpression |-> status,
              index |-> "namespace-createdAt",
              item |-> [namespace |-> a.namespace],
              limit |-> a.limit,
              queryExpression |-> range,
              scanIndexForward |-> IF a.desc THEN FALSE ELSE TRUE,
              startKey |-> a.startKey]

\* the key part of the version with an idPrefix: the primary key when the
\* prefix is truthy, the index otherwise; a range replaces the maps
KeyOptionsByIdPrefix(a) ==
    LET base ==
            [attributeNames |-> <<(<<Name("namespace"), "namespace">>)>>,
             attributeValues |-> <<(<<Value("namespace"), a.namespace>>)>>,
             filterExpression |-> <<>>,
             limit |-> a.limit,
             queryExpression |-> <<Equals(<<Name("namespace")>>, Value("namespace"))>>,
             scanIndexForward |-> IF a.desc THEN FALSE ELSE TRUE,
             startKey |-> a.startKey]
        ranged == Has(a, "from") /\ Has(a, "to")
    IN  IF Has(a, "idPrefix") /\ Truthy(a.idPrefix)
        THEN IF ranged
             THEN [base EXCEPT
                     !.attributeNames =
                         <<(<<Name("id"), "id">>), (<<Name("namespace"), "namespace">>)>>,
                     !.attributeValues =
                         <<(<<Value("from"),
                              a.idPrefix \o EncodeTime(a.from) \o <<MinChar>>>>),
                           (<<Value("namespace"), a.namespace>>),
                           (<<Value("to"),
                              a.idPrefix \o EncodeTime(a.to) \o <<MaxChar>>>>)>>,
                     !.queryExpression =
                         <<Equals(<<Name("namespace")>>, Value("namespace")),
                           Between(<<Name("id")>>, Value("from"), Value("to"))>>]
             ELSE [base EXCEPT
                     !.attributeNames = Assign(@, Name("id"), "id"),
                     !.attributeValues = Assign(@, Value("idPrefix"), a.idPrefix),
                     !.queryExpression =
                         <<Equals(<<Name("namespace")>>, Value("namespace")),
                           BeginsWith(<<Name("id")>>, Value("idPrefix"))>>]
        ELSE LET indexed == base @@ [index |-> "namespace-createdAt"]
             IN  IF ranged
                 THEN [indexed EXCEPT
                         !.attributeNames =
                             <<(<<Name("namespace"), "namespace">>),
                               (<<Name("__createdAt"), "__createdAt">>)>>,
                         !.attributeValues =
                             <<(<<Value("from"), a.from>>),
                               (<<Value("namespace"), a.namespace>>),
                               (<<Value("to"), a.to>>)>>,
                         !.queryExpression =
                             <<Equals(<<Name("namespace")>>, Value("namespace")),
                               Between(<<Name("__createdAt")>>, Value("from"), Value("to"))>>]
                 ELSE indexed

\* the queryOptions the version with an idPrefix hands to this.db.logs.query
QueryOptionsByIdPrefix(a) == WithStatus(WithMetadata(KeyOptionsByIdPrefix(a), a), a)

\* whether the item satisfies a condition of a key expression
HoldsKey(cond, item, q) ==
    LET name == Get(q.attributeNames, cond.path[1])
        values == [i \in 1 .. Len(cond.operands) |->
                      Get(q.attributeValues, cond.operands[i])]
    IN  IF cond.op = "begins_with" THEN StartsWith(item[name], values[1])
        ELSE IF cond.op = "BETWEEN" /\ name = "id"
        THEN LexLeq(values[1], item.id) /\ LexLeq(item.id, values[2])
        ELSE Holds(cond, item, q)

\* the items of S in the order of the primary key: by id, ascending when forward
RECURSIVE KeyOrder(_, _, _)
KeyOrder(store, S, forward) ==
    IF S = {} THEN <<>>
    ELSE LET first == CHOOSE i \in S : \A j \in S :
                          IF forward THEN LexLeq(store[i].id, store[j].id)
                          ELSE LexLeq(store[j].id, store[i].id)
         IN  <<store[first]>> \o KeyOrder(store, S \ {first}, forward)

\* this.db.logs.query(q) for options that may name the key by item and prefix
\* and may leave the index out, called without a cursor: the items of the
\* partition that the key selects are read in the order of the index, or of the
\* id without one, at most limit of them, and those that pass the filter are
\* returned
StoreLookup(store, q) ==
    LET ByItem(item) ==
            "item" \in DOMAIN q =>
                /\ item.namespace = q.item.namespace
                /\ "id" \in DOMAIN q.item =>
                       IF q.prefix THEN StartsWith(item.id, q.item.id)
                       ELSE item.id = q.item.id
        ByExpression(item) ==
            "queryExpression" \in DOMAIN q =>
                \A i \in 1 .. Len(q.queryExpression) :
                    HoldsKey(q.queryExpression[i], item, q)
        selected == {i \in 1 .. Len(store) : ByItem(store[i]) /\ ByExpression(store[i])}
        ordered == IF "index" \in DOMAIN q
                   THEN ScanOrder(store, selected, q.scanIndexForward)
                   ELSE KeyOrder(store, selected, q.scanIndexForward)
        Passes(item) == HoldsAll(q.filterExpression, item, q)
        read == SubSeq(ordered, 1, Min(q.limit, Len(ordered)))
        items == SelectSeq(read, Passes)
    IN  [count |-> Len(items),
         items |-> items,
         lastEvaluatedKey |-> IF Len(read) < Len(ordered) THEN KeyOf(Last(read)) ELSE Null]

\* records whose ids are a prefix, the encoded time of creation and a random
\* character: three of one namespace next to one of another
LookupStores ==
    {<<Stored(<<5, 1, 1>>, "spec", 1, <<(<<"k", "v">>)>>, OkResponse),
       Stored(<<5, 2, 2>>, "other", 2, <<(<<"k", "v">>)>>, OkResponse),
       Stored(<<5, 2, 1>>, "spec", 2, <<>>, NonOkResponse),
       Stored(<<6, 3, 1>>, "spec", 3, <<(<<"k", "v">>)>>, OkResponse)>>}

\* the selectors drawn: the empty string, a prefix of two ids, a whole id
IdSelectors == {<<>>, <<5>>, <<5, 1, 1>>}

FullLookups ==
    [namespace : {"spec"},
     desc : {TRUE},
     from : {DateTimes[2]},
     to : {DateTimes[3]},
     limit : {MinLimit - 1, MinLimit + 1},
     status : {"SUCCESS"}]

LookupFields == {"namespace", "desc", "from", "to", "limit", "status"}

\* the inputs of the version with an id: id and idPrefix present or absent
FetchLogsByIdInputs ==
    {Restrict(full, present) @@ id @@ idPrefix :
        full \in FullLookups,
        present \in {fs \in SUBSET LookupFields : "namespace" \in fs},
        id \in {<<>>} \cup {[id |-> i] : i \in IdSelectors},
        idPrefix \in {<<>>} \cup {[idPrefix |-> b] : b \in BOOLEAN}}

\* the inputs of the version with an idPrefix: idPrefix and metadata present or
\* absent
FetchLogsByIdPrefixInputs ==
    {Restrict(full, present) @@ idPrefix @@ metadata :
        full \in FullLookups,
        present \in {fs \in SUBSET LookupFields : "namespace" \in fs},
        idPrefix \in {<<>>} \cup {[idPrefix |-> i] : i \in IdSelectors},
        metadata \in {<<>>, [metadata |-> <<(<<"k", "v">>)>>]}}

\* fetchLogs(in) of the version with an id
FetchLogsById(in) ==
    /\ fetchInput' = in
    /\ pages' = None
    /\ IF FetchIssues(in) # {}
       THEN /\ page' = [rejected |-> FetchIssues(in)]
            /\ plan' = None
       ELSE LET q == QueryOptionsById(ParseFetchLogsInputById(in))
                res == StoreLookup(logs, q)
            IN  /\ plan' = q
                /\ page' = [res EXCEPT
                              !.items = [i \in 1 .. Len(res.items) |->
                                            logShape(res.items[i], now)]]
    /\ UNCHANGED <<callVars, logs, now, buildVars, cleared, shapeVars, calls>>

\* fetchLogs(in) of the version with an idPrefix
FetchLogsByIdPrefix(in) ==
    /\ fetchInput' = in
    /\ pages' = None
    /\ IF FetchIssues(in) # {}
       THEN /\ page' = [rejected |-> FetchIssues(in)]
            /\ plan' = None
       ELSE LET q == QueryOptionsByIdPrefix(ParseFetchLogsInput(in))
                res == StoreLookup(logs, q)
            IN  /\ plan' = q
                /\ page' = [res EXCEPT
                              !.items = [i \in 1 .. Len(res.items) |->
                                            logShape(res.items[i], now)]]
    /\ UNCHANGED <<callVars, logs, now, buildVars, cleared, shapeVars, calls>>

InitLookup ==
    /\ InitCall
    /\ logs \in LookupStores
    /\ now = Len(DateTimes)
    /\ InitBuild
    /\ InitQuery
    /\ InitClear
    /\ InitShape
    /\ InitCalls

\* one call of either version
NextLookup ==
    \/ \E in \in FetchLogsByIdInputs : fetchInput = None /\ FetchLogsById(in)
    \/ \E in \in FetchLogsByIdPrefixInputs : fetchInput = None /\ FetchLogsByIdPrefix(in)

SpecLookup == InitLookup /\ [][NextLookup]_vars

----------------------------------------------------------------------------
(* putLog and logShape on log inputs that leave optional fields out *)

\* the fields of the log schema without a default
RequiredLogFields ==
    {"id", "namespace", "requestBody", "requestHeaders", "requestMethod",
     "requestUrl", "responseBody", "responseHeaders", "responseOk",
     "responseStatus", "status"}

\* the fields of the log schema with a default
DefaultedLogFields ==
    {"__createdAt", "__updatedAt", "metadata", "retryCount", "retryLimit"}

FullLogInputs ==
    [__createdAt : {7},
     __updatedAt : {8},
     id : {123},
     metadata : {<<>>, <<(<<"k", "v">>)>>},
     namespace : {"spec"},
     requestBody : {Null},
     requestHeaders : {Null},
     requestMethod : {"GET"},
     requestUrl : WellFormedUrls,
     responseBody : {""},
     responseHeaders : {<<>>},
     responseOk : BOOLEAN,
     responseStatus : {200},
     retryCount : {0, 2},
     retryLimit : {3, 5},
     status : {"FAIL", "SUCCESS"}]

\* log inputs with every subset of the defaulted fields present, and log inputs
\* that lack the required status
LogInputs ==
    {Restrict(full, RequiredLogFields \cup present) :
        full \in FullLogInputs, present \in SUBSET DefaultedLogFields}
    \cup {Restrict(full, (RequiredLogFields \ {"status"}) \cup DefaultedLogFields) :
            full \in FullLogInputs}

\* the paths of the issues log.parseAsync reports
LogIssues(in) == {f \in RequiredLogFields : ~Has(in, f)}

\* putLog(partial): rejects with the ZodError of the input, or stores the parsed
\* input and resolves to the shaped form of what the store returned
PutLog ==
    /\ partial # None
    /\ shaped = None
    /\ IF LogIssues(partial) # {}
       THEN /\ shaped' = [rejected |-> LogIssues(partial)]
            /\ UNCHANGED <<logs, now>>
       ELSE /\ now' = now + 1
            /\ logs' = StorePut(logs, LogParse(partial, now))
            /\ shaped' = logShape(LogParse(partial, now), now)
    /\ UNCHANGED <<callVars, buildVars, queryVars, cleared, partial, reshaped, calls>>

\* logShape(shaped), called when the clock has moved on
Reshape ==
    /\ shaped # None
    /\ "rejected" \notin DOMAIN shaped
    /\ reshaped = None
    /\ reshaped' = logShape(shaped, now)
    /\ UNCHANGED <<callVars, logs, now, buildVars, queryVars, cleared, partial, shaped, calls>>

InitLogInputs ==
    /\ InitTrigger
    /\ InitBuild
    /\ InitQuery
    /\ InitClear
    /\ partial \in LogInputs
    /\ shaped = None
    /\ reshaped = None
    /\ InitCalls

NextShape ==
    \/ PutLog
    \/ Reshape

SpecShape == InitLogInputs /\ [][NextShape]_vars

----------------------------------------------------------------------------
(* trigger calls in flight at once, and fetchLogs next to them: every await of
   trigger is a point where another call may run.  The store's puts resolve. *)

\* the state of the single trigger call other than the id counter
soloVars == <<pc, input, cur, args, retries, response, err, result, error,
              attempts, fetchCalls, putCalls, putFails, outcomes, waits, sent>>

\* what the concurrent calls leave alone
restVars == <<soloVars, buildVars, queryVars, cleared, shapeVars>>

\* the inputs of the concurrent calls: one retried once, one whose headers
\* createFetchRequest rejects, one without a URL
ConcurrentInputs ==
    {[namespace |-> "spec", requestUrl |-> CHOOSE u \in WellFormedUrls : TRUE,
      retryLimit |-> MinRetryLimit + 1],
     [namespace |-> "spec", requestUrl |-> CHOOSE u \in WellFormedUrls : TRUE,
      retryLimit |-> MinRetryLimit + 1, requestHeaders |-> ("bad name" :> "x")],
     [namespace |-> "spec", retryLimit |-> MinRetryLimit + 1]}

\* the fetchLogs inputs of the reader
ConcurrentFetches ==
    {[namespace |-> "spec"], [namespace |-> "spec", status |-> "FAIL"]}

\* call c with its locals replaced
Local(c, l) == [calls EXCEPT ![c] = l]

\* a caller invokes trigger(in): retries defaults to 0
CallTrigger(c, in) ==
    /\ calls[c].pc = "idle"
    /\ calls' = Local(c, [calls[c] EXCEPT !.pc = "parse", !.cur = in, !.retries = 0])
    /\ UNCHANGED <<logs, now, uuids, restVars>>

\* triggerInput.parseAsync(input) rejects in call c
CallParseFail(c) ==
    /\ calls[c].pc = "parse"
    /\ Issues(calls[c].cur) # {}
    /\ calls' = Local(c, [calls[c] EXCEPT
                            !.pc = "thrown",
                            !.error = ValidationError(Issues(calls[c].cur))])
    /\ UNCHANGED <<logs, now, uuids, restVars>>

\* triggerInput.parseAsync(input) resolves in call c
CallParseOk(c) ==
    /\ calls[c].pc = "parse"
    /\ Issues(calls[c].cur) = {}
    /\ calls' = Local(c, [calls[c] EXCEPT
                            !.pc = "send",
                            !.args = ParseTriggerInput(calls[c].cur),
                            !.attempts = @ + 1])
    /\ UNCHANGED <<logs, now, uuids, restVars>>

\* createFetchRequest throws in call c
CallBuildFail(c) ==
    /\ calls[c].pc = "send"
    /\ BuildThrows(calls[c].args)
    /\ calls' = Local(c, [calls[c] EXCEPT
                            !.pc = "catch",
                            !.err = HeadersError,
                            !.outcomes = Append(@, "buildfail")])
    /\ UNCHANGED <<logs, now, uuids, restVars>>

\* fetch resolves to response r in call c
CallSendResponse(c, r) ==
    /\ calls[c].pc = "send"
    /\ ~BuildThrows(calls[c].args)
    /\ calls' = Local(c, [calls[c] EXCEPT
                            !.pc = "record",
                            !.response = r,
                            !.outcomes = Append(@, IF r.ok THEN "ok" ELSE "nonok")])
    /\ UNCHANGED <<logs, now, uuids, restVars>>

\* fetch rejects in call c
CallSendRaise(c) ==
    /\ calls[c].pc = "send"
    /\ ~BuildThrows(calls[c].args)
    /\ calls' = Local(c, [calls[c] EXCEPT
                            !.pc = "catch",
                            !.err = FetchError,
                            !.outcomes = Append(@, "raise")])
    /\ UNCHANGED <<logs, now, uuids, restVars>>

\* CallRecordPut over a retries counter that the calls share: the increment is
\* made in every call
CallRecordPutShared(c) ==
    /\ calls[c].pc = "record"
    /\ uuids' = uuids + 1
    /\ now' = now + 1
    /\ LET l == calls[c]
           put == LogParse(ResponseLog(uuid(uuids), l.args, l.response, l.retries), now)
           bump == [d \in Callers |-> [calls[d] EXCEPT !.retries = @ + 1]]
       IN
        /\ logs' = StorePut(logs, put)
        /\ calls' =
              IF ~l.response.ok
              THEN IF ShouldRetry(l.retries + 1, l.args)
                   THEN [bump EXCEPT ![c] = [bump[c] EXCEPT
                            !.pc = "wait", !.written = Append(@, put.id)]]
                   ELSE [bump EXCEPT ![c] = [bump[c] EXCEPT
                            !.pc = "done", !.written = Append(@, put.id),
                            !.result = logShape(put, now)]]
              ELSE Local(c, [l EXCEPT !.pc = "done", !.written = Append(@, put.id),
                                      !.result = logShape(put, now)])
    /\ UNCHANGED restVars

\* the try block's putLog resolves in call c; then the retry decision on the
\* call's own retries
CallRecordPut(c) ==
    /\ calls[c].pc = "record"
    /\ uuids' = uuids + 1
    /\ now' = now + 1
    /\ LET l == calls[c]
           put == LogParse(ResponseLog(uuid(uuids), l.args, l.response, l.retries), now)
       IN
        /\ logs' = StorePut(logs, put)
        /\ calls' =
              IF ~l.response.ok
              THEN IF ShouldRetry(l.retries + 1, l.args)
                   THEN Local(c, [l EXCEPT !.pc = "wait", !.retries = @ + 1,
                                           !.written = Append(@, put.id)])
                   ELSE Local(c, [l EXCEPT !.pc = "done", !.retries = @ + 1,
                                           !.written = Append(@, put.id),
                                           !.result = logShape(put, now)])
              ELSE Local(c, [l EXCEPT !.pc = "done", !.written = Append(@, put.id),
                                      !.result = logShape(put, now)])
    /\ UNCHANGED restVars

\* the inner catch block's putLog resolves in call c
CallCatchPut(c) ==
    /\ calls[c].pc = "catch"
    /\ uuids' = uuids + 1
    /\ now' = now + 1
    /\ LET l == calls[c]
           put == LogParse(CatchLog(uuid(uuids), l.args, l.err), now)
       IN
        /\ logs' = StorePut(logs, put)
        /\ calls' = Local(c, [l EXCEPT !.pc = "done", !.written = Append(@, put.id),
                                       !.result = logShape(put, now)])
    /\ UNCHANGED restVars

\* the backoff timer of call c fires: `return this.trigger(args, retries)`
CallTimerFires(c) ==
    /\ calls[c].pc = "wait"
    /\ calls' = Local(c, [calls[c] EXCEPT !.pc = "parse", !.cur = calls[c].args])
    /\ UNCHANGED <<logs, now, uuids, restVars>>

\* a step of call c after it was made
CallStep(c) ==
    \/ CallParseFail(c)
    \/ CallParseOk(c)
    \/ CallBuildFail(c)
    \/ \E r \in Responses : CallSendResponse(c, r)
    \/ CallSendRaise(c)
    \/ CallRecordPut(c)
    \/ CallCatchPut(c)
    \/ CallTimerFires(c)

\* a fetchLogs call of the reader, made once
ReaderFetch == \E in \in ConcurrentFetches : fetchInput = None /\ FetchLogs(in)

NextConcurrent ==
    \/ \E c \in Callers, in \in ConcurrentInputs : CallTrigger(c, in)
    \/ \E c \in Callers : CallStep(c)
    \/ ReaderFetch

SpecConcurrent == Init /\ [][NextConcurrent]_vars

\* trigger run alone on the transport outcomes o from the i-th on, retries
\* being n: the retryCount of the records it writes, one per attempt
RECURSIVE Alone(_, _, _, _)
Alone(a, o, i, n) ==
    IF i > Len(o) THEN <<>>
    ELSE IF o[i] \in {"raise", "buildfail"} THEN <<0>>
    ELSE IF o[i] = "ok" THEN <<n>>
    ELSE IF ShouldRetry(n + 1, a) THEN <<n>> \o Alone(a, o, i + 1, n + 1)
    ELSE <<n>>

----------------------------------------------------------------------------
(* Claims *)

Done == pc = "done"
Thrown == pc = "thrown"

\* the validated retryLimit of the caller's input (3 when omitted)
RequestedLimit == ParseTriggerInput(input).retryLimit

AllOutcomes(kind) == \A i \in 1 .. Len(outcomes) : outcomes[i] = kind

\* C1: with retryLimit = N in 0..10 and a transport that answers every attempt
\* with a non-ok response, a finished trigger call has made exactly N+1 attempts,
\* written exactly N+1 records and returned the last record written, which has
\* retryCount = N and status FAIL.
C1_RetryBound ==
    (Done /\ putFails = 0 /\ AllOutcomes("nonok")) =>
        /\ attempts = RequestedLimit + 1
        /\ fetchCalls = RequestedLimit + 1
        /\ Len(logs) = RequestedLimit + 1
        /\ result = Last(logs)
        /\ result.retryCount = RequestedLimit
        /\ result.status = "FAIL"


\* C2 as stated: a transport exception is retried like a non-ok response, so a
\* finished call whose transport raised on every attempt has made N+1 attempts and
\* written N+1 records.
C2_ExceptionRetried ==
    (Done /\ putFails = 0 /\ AllOutcomes("raise")) =>
        /\ attempts = RequestedLimit + 1
        /\ Len(logs) = RequestedLimit + 1

\* C2 amended: a transport exception is turned into a FAIL record with the
\* synthetic 500 response but is not retried: the attempt on which the transport
\* raises is the last attempt of the call whatever retryLimit is, no backoff timer
\* follows it, and a call whose transport raises on its first attempt finishes with
\* 1 attempt and 1 record.
C2_ExceptionNotRetried ==
    /\ \A i \in 1 .. Len(outcomes) :
          outcomes[i] = "raise" =>
              /\ i = Len(outcomes)
              /\ attempts = i
              /\ Len(waits) = i - 1
              /\ pc \in {"catch", "done", "thrown"}
    /\ (Done /\ putFails = 0 /\ AllOutcomes("raise")) =>
          /\ attempts = 1
          /\ fetchCalls = 1
          /\ Len(logs) = 1
          /\ result = logs[1]
          /\ result.status = "FAIL"
          /\ result.responseStatus = 500

\* a call with retryLimit 2 or more has finished after its transport raised
C2_Witness ==
    /\ Done
    /\ putFails = 0
    /\ Last(outcomes) = "raise"
    /\ RequestedLimit >= 2
    /\ Len(logs) = attempts

\* an input with a missing namespace or requestUrl, a malformed URL, a retryLimit
\* outside 0..10 or an unknown method
OffendingFields(in) ==
    {f \in {"namespace", "requestUrl"} : f \notin DOMAIN in}
    \cup {f \in {"requestUrl"} : f \in DOMAIN in /\ in[f] \in MalformedUrls}
    \cup {f \in {"retryLimit"} : f \in DOMAIN in /\ in[f] \notin 0 .. 10}
    \cup {f \in {"requestMethod"} :
            f \in DOMAIN in /\ in[f] \notin {"DELETE", "GET", "HEAD", "POST", "PUT"}}

\* C3: a delivery failure is never thrown: while the store accepts every write a
\* call with valid input does not reject, and a call whose last attempt ended in a
\* non-ok response or in a transport exception resolves to a record with status
\* FAIL and responseOk false; after an exception the record has response status
\* 500 and empty response headers, also on the last attempt the limit allows.
C3_DeliveryFailureNeverThrown ==
    /\ (putFails = 0 /\ input # None /\ OffendingFields(input) = {}) => ~Thrown
    /\ (Done /\ putFails = 0 /\ Last(outcomes) \in {"nonok", "raise"}) =>
          /\ result.status = "FAIL"
          /\ result.responseOk = FALSE
          /\ result = Last(logs)
    /\ (Done /\ putFails = 0 /\ Last(outcomes) = "raise") =>
          /\ result.responseStatus = 500
          /\ result.responseHeaders = <<>>

\* a call has resolved after its transport raised on a retry
C3_Witness ==
    /\ Done
    /\ putFails = 0
    /\ Last(outcomes) = "raise"
    /\ attempts > 1
    /\ result.status = "FAIL"

\* C4: validation before I/O: a call with an invalid TriggerInput neither calls
\* the transport nor the store, and once it has left validation it has rejected
\* with a 400 validation error whose context names the offending fields.
C4_ValidationBeforeIO ==
    (input # None /\ OffendingFields(input) # {}) =>
        /\ fetchCalls = 0
        /\ putCalls = 0
        /\ logs = <<>>
        /\ attempts = 0
        /\ pc \in {"parse", "thrown"}
        /\ Thrown =>
              /\ error.status = 400
              /\ error.message = "Validation Error"
              /\ error.context = OffendingFields(input)

\* a call with a retryLimit out of range has rejected
C4_Witness ==
    /\ Thrown
    /\ input # None
    /\ "retryLimit" \in OffendingFields(input)
    /\ error.status = 400


\* the call has just written a record: it returned it or it waits for the timer
Recorded == pc \in {"done", "wait"}

\* C5 as stated: after writing an attempt's record the call is done and returns
\* that record iff responseOk is true or retryCount equals retryLimit.
C5_StopRule ==
    Recorded =>
        ((Done /\ result = Last(logs))
            <=> (Last(logs).responseOk \/ Last(logs).retryCount = Last(logs).retryLimit))

\* C5 amended: after writing an attempt's record the call is done and returns
\* that record iff responseOk is true, or retryCount equals retryLimit, or the
\* record was written by the catch block (the attempt ended in an exception);
\* otherwise it sets the backoff timer and the next attempt runs with
\* retryCount + 1. A SUCCESS record is the last record of its call and no
\* transport call follows it.
C5_StopRuleAmended ==
    /\ Recorded =>
          /\ (Done /\ result = Last(logs))
                <=> \/ Last(logs).responseOk
                    \/ Last(logs).retryCount = Last(logs).retryLimit
                    \/ err # None
          /\ pc = "wait" =>
                /\ retries = Last(logs).retryCount + 1
                /\ Len(waits) = Len(logs)
    /\ \A i \in 1 .. Len(logs) :
          logs[i].status = "SUCCESS" =>
              /\ i = Len(logs)
              /\ Done
              /\ result = logs[i]
              /\ fetchCalls = i

\* a call waits for the backoff timer after a FAIL record below the limit
C5_Witness ==
    /\ pc = "wait"
    /\ Len(logs) >= 2
    /\ ~Last(logs).responseOk
    /\ Last(logs).retryCount < Last(logs).retryLimit

\* C6 as stated: whenever the call returns normally, the number of records it
\* wrote equals the number of transport invocations it made.
C6_RecordsEqualTransportCalls ==
    Done => Len(logs) = fetchCalls

BuildFailures == Cardinality({i \in 1 .. Len(outcomes) : outcomes[i] = "buildfail"})

\* C6 amended: one record per attempt, recorded before moving on: every attempt
\* (build, send) is followed by exactly one record write that happens before the
\* next attempt starts and before the call returns, so a call that returns
\* normally wrote as many records as it made attempts; an attempt invokes the
\* transport once, unless building the request raised, and then its record is
\* written without a transport invocation.
C6_OneRecordPerAttempt ==
    /\ Done => Len(logs) = attempts
    /\ pc \in {"send", "record", "catch"} => Len(logs) = attempts - 1
    /\ pc = "wait" => Len(logs) = attempts
    /\ fetchCalls = Len(outcomes) - BuildFailures
    /\ Len(outcomes) \in {attempts - 1, attempts}
    /\ pc = "send" => Len(outcomes) = attempts - 1
    /\ \A i, j \in 1 .. Len(logs) : logs[i].id = logs[j].id => i = j

\* a call has returned after several attempts, one of them recorded by the catch
\* block
C6_Witness ==
    /\ Done
    /\ attempts >= 3
    /\ Len(logs) = attempts
    /\ err # None

\* C7: the record written for the k-th attempt (0-based) carries retryCount = k,
\* whether the attempt ended in a response or in an exception.
C7_AttemptIndex ==
    \A i \in 1 .. Len(logs) : logs[i].retryCount = i - 1

\* C8: the backoff timer set between attempt k and attempt k+1 (0-based) is
\* min(500*(k+1), 3000) ms and never above 3000 ms.
C8_BackoffSchedule ==
    \A i \in 1 .. Len(waits) :
        /\ waits[i].after = i
        /\ waits[i].ms = (IF 500 * i <= 3000 THEN 500 * i ELSE 3000)
        /\ waits[i].ms <= 3000

\* the timers of a call went past the cap: 500, ..., 3000, 3000
C8_Witness ==
    /\ Len(waits) >= 7
    /\ waits[1].ms = 500
    /\ waits[6].ms = 3000
    /\ waits[7].ms = 3000

\* C9: a failed store put is surfaced and not retried: a call that saw a put
\* fail ends by rejecting with the store's error, and made no store call after
\* the failed one.
C9_StorageErrorSurfaced ==
    (putFails > 0 /\ (Done \/ Thrown)) =>
        /\ Thrown
        /\ error = StoreError
        /\ putFails = 1
        /\ putCalls = Len(logs) + 1

\* C10: every record written by trigger has status SUCCESS iff responseOk.
C10_StatusInvariant ==
    /\ \A i \in 1 .. Len(logs) : (logs[i].status = "SUCCESS") <=> logs[i].responseOk
    /\ Done => ((result.status = "SUCCESS") <=> result.responseOk)

\* the store holds a FAIL record of a response, followed by a SUCCESS record
C10_Witness ==
    /\ Len(logs) >= 2
    /\ logs[1].status = "FAIL"
    /\ Last(logs).status = "SUCCESS"
    /\ Last(logs).responseOk


\* C11: every record written by a trigger call started with retries = 0 has
\* retryCount <= retryLimit, for every retryLimit in 0..10 and every sequence of
\* transport outcomes.
C11_RetryCounterInvariant ==
    /\ \A i \in 1 .. Len(logs) :
          /\ logs[i].retryCount >= 0
          /\ logs[i].retryCount <= logs[i].retryLimit
    /\ Done => result.retryCount <= result.retryLimit

\* the last retry the limit allows was recorded: retryCount = retryLimit = 10
C11_Witness ==
    /\ Len(logs) = 11
    /\ Last(logs).retryCount = 10
    /\ Last(logs).retryLimit = 10


\* the caller's raw request fields
RawBody == IF "requestBody" \in DOMAIN input THEN input.requestBody ELSE Null
RawHeaders == IF "requestHeaders" \in DOMAIN input THEN input.requestHeaders ELSE Null

\* C12 as stated: every record stores the request actually sent, the final URL of
\* the request builder and the encoded body, on every path that writes a record
\* (a record whose attempt reached the transport).
C12_LoggedRequestIsSent ==
    (Recorded /\ Last(outcomes) # "buildfail") =>
        /\ Last(logs).requestUrl = sent.url
        /\ Last(logs).requestMethod = sent.method
        /\ Last(logs).requestBody = sent.body

\* C12 amended: a record written on the response path stores the final URL and
\* the method of the request builder (the URL with the merged query parameters),
\* together with the caller's raw body map and raw headers, not the encoded body;
\* a record written by the catch block stores the caller's raw requestUrl, the
\* validated method and the raw body and headers.
C12_LoggedRequest ==
    Recorded =>
        /\ Last(logs).requestBody = RawBody
        /\ Last(logs).requestHeaders = RawHeaders
        /\ err = None =>
              /\ Last(logs).requestUrl = sent.url
              /\ Last(logs).requestMethod = sent.method
        /\ err # None =>
              /\ Last(logs).requestUrl = input.requestUrl
              /\ Last(logs).requestMethod = args.requestMethod

\* a GET with a body was answered: the record has the URL with the merged query,
\* which is not the caller's, and the caller's body map
C12_Witness ==
    /\ Done
    /\ err = None
    /\ Last(logs).requestUrl # input.requestUrl
    /\ Last(logs).requestUrl = sent.url
    /\ Last(logs).requestBody # Null
    /\ Len(Last(logs).requestBody.object) = 3
    /\ sent.body = Null


\* the value a query string or a body map gives a key: the last entry of the key
ValueOf(entries, k) ==
    LET i == CHOOSE i \in 1 .. Len(entries) :
                 /\ entries[i][1] = k
                 /\ \A j \in (i + 1) .. Len(entries) : entries[j][1] # k
    IN  entries[i][2]

KeysOf(entries) == {entries[i][1] : i \in 1 .. Len(entries)}

NonEmptyBody == req.body # Null /\ Len(req.body.object) > 0

C14_UrlIdentity ==
    (wire # None /\ req.method \in {"GET", "HEAD", "DELETE"} /\ ~NonEmptyBody) =>
        wire.url = req.url

\* str contains needle, whatever the case of str
ContainsAnyCase(str, needle) ==
    \E lower \in {FormType, "application/x-www-form-urlencoded; charset=utf-8",
                  MultipartType, "multipart/form-data; boundary=x"} :
        /\ Includes(lower, needle)
        /\ str \in {lower, "Application/X-WWW-Form-Urlencoded", "Multipart/Form-Data"}
        /\ (str # lower =>
               \/ str = "Application/X-WWW-Form-Urlencoded" /\ lower = FormType
               \/ str = "Multipart/Form-Data" /\ lower = MultipartType)

ContentTypeOf(headers) ==
    IF headers = Null THEN ""
    ELSE IF "content-type" \in DOMAIN headers THEN headers["content-type"]
    ELSE IF "Content-Type" \in DOMAIN headers THEN headers["Content-Type"]
    ELSE ""

\* C15 as stated: for POST or PUT the URL is returned unchanged, a null or empty
\* body gives a null body, and a non-empty body is encoded by what the
\* content-type header contains, compared without regard to case: the form type
\* gives a form-encoded string, the multipart type a multipart payload with one
\* field per key, anything else the JSON serialization.
C15_PostEncoding ==
    (wire # None /\ req.method \in {"POST", "PUT"}) =>
        /\ wire.url = req.url
        /\ ~NonEmptyBody => wire.body = Null
        /\ NonEmptyBody =>
              /\ wire.body # Null
              /\ wire.body.entries = req.body.object
              /\ wire.body.kind =
                    (IF ContainsAnyCase(ContentTypeOf(req.headers), FormType)
                     THEN "form"
                     ELSE IF ContainsAnyCase(ContentTypeOf(req.headers), MultipartType)
                          THEN "multipart" ELSE "json")


\* a fetchLogs call compiled query options
Compiled == plan # None

\* the validated input of the latest fetchLogs call
FetchArgs == ParseFetchLogsInput(fetchInput)

\* an expression with its placeholders replaced by what the maps of the query
\* options give them
Resolved(expression, q) ==
    [i \in 1 .. Len(expression) |->
        [path |-> [j \in 1 .. Len(expression[i].path) |->
                      Get(q.attributeNames, expression[i].path[j])],
         op |-> expression[i].op,
         operands |-> [j \in 1 .. Len(expression[i].operands) |->
                          Get(q.attributeValues, expression[i].operands[j])]]]

RangeGiven == "from" \in DOMAIN fetchInput /\ "to" \in DOMAIN fetchInput

StatusGiven == "status" \in DOMAIN fetchInput

\* C16 as stated: fetchLogs queries the namespace-createdAt index with the key
\* condition namespace = the input's namespace; a given from/to range is added
\* to the key condition as __createdAt BETWEEN from AND to and never to the
\* filter; the filter is one equality per metadata key, in insertion order, then
\* the status equality last, and is empty when neither is given.
C16_RangeScanCompilation ==
    Compiled =>
        /\ plan.index = "namespace-createdAt"
        /\ Resolved(plan.queryExpression, plan) =
              <<[path |-> <<"namespace">>, op |-> "=",
                 operands |-> <<FetchArgs.namespace>>]>>
              \o (IF RangeGiven
                  THEN <<[path |-> <<"__createdAt">>, op |-> "BETWEEN",
                          operands |-> <<FetchArgs.from, FetchArgs.to>>]>>
                  ELSE <<>>)
        /\ Resolved(plan.filterExpression, plan) =
              [i \in 1 .. Len(FetchArgs.metadata) |->
                  [path |-> <<"metadata", FetchArgs.metadata[i][1]>>, op |-> "=",
                   operands |-> <<FetchArgs.metadata[i][2]>>]]
              \o (IF StatusGiven
                  THEN <<[path |-> <<"status">>, op |-> "=",
                          operands |-> <<FetchArgs.status>>]>>
                  ELSE <<>>)

\* the attribute names and the literal values a query refers to, each with the
\* placeholder the compilation gives it
ReferencedNames ==
    {<<Name("namespace"), "namespace">>}
    \cup (IF RangeGiven THEN {<<Name("__createdAt"), "__createdAt">>} ELSE {})
    \cup (IF Len(FetchArgs.metadata) > 0 THEN {<<Name("metadata"), "metadata">>} ELSE {})
    \cup {<<Name(FetchArgs.metadata[i][1]), FetchArgs.metadata[i][1]>> :
             i \in 1 .. Len(FetchArgs.metadata)}
    \cup (IF StatusGiven THEN {<<Name("status"), "status">>} ELSE {})

ReferencedValues ==
    {<<Value("namespace"), FetchArgs.namespace>>}
    \cup (IF RangeGiven
          THEN {<<Value("from"), FetchArgs.from>>, <<Value("to"), FetchArgs.to>>}
          ELSE {})
    \cup {<<Value(FetchArgs.metadata[i][1]), FetchArgs.metadata[i][2]>> :
             i \in 1 .. Len(FetchArgs.metadata)}
    \cup (IF StatusGiven THEN {<<Value("status"), FetchArgs.status>>} ELSE {})

\* C17 as stated: in every compiled plan no '#' placeholder stands for two
\* attribute names and no ':' placeholder for two values: every name and value
\* the query refers to is what the plan's maps give its placeholder, also
\* when a metadata key is the name of a built-in attribute.
C17_PlaceholderUniqueness ==
    Compiled =>
        /\ \A n \in ReferencedNames : Get(plan.attributeNames, n[1]) = n[2]
        /\ \A v \in ReferencedValues : Get(plan.attributeValues, v[1]) = v[2]

\* every record the filters of the pagination match, in scan order: what one
\* call with no cursor and no limit returns
Matching ==
    StoreQuery(pages.store,
               [plan EXCEPT !.startKey = Null, !.limit = Len(pages.store) + 1]).items

IsPrefix(s, t) == Len(s) <= Len(t) /\ s = SubSeq(t, 1, Len(s))

\* C18: over a fixed set of records, the pages of the calls that pass each
\* lastEvaluatedKey as the next startKey are, one after the other, the matching
\* records in scan order, none twice (each page starts strictly after the
\* previous one), and when the cursor returned is null they are all of them.
C18_PaginationContinuation ==
    (Compiled /\ pages # None) =>
        /\ IsPrefix(pages.items, Matching)
        /\ page.lastEvaluatedKey = Null => pages.items = Matching

\* three records, limit 2: the second call returned the third record and a
\* null cursor
C18_Witness ==
    /\ Compiled
    /\ pages # None
    /\ "startKey" \in DOMAIN fetchInput
    /\ fetchInput.limit = 2
    /\ DOMAIN fetchInput = {"namespace", "limit", "startKey"}
    /\ page.count = 1
    /\ page.lastEvaluatedKey = Null
    /\ Len(pages.items) = 3


\* the number of records of the namespace in the store
Held(store, namespace) ==
    Cardinality({i \in 1 .. Len(store) : store[i].namespace = namespace})

\* C19: a clearLogs(ns) call returns the number of records ns held before it
\* and leaves ns without records, and an unfiltered query for ns made after it,
\* nothing having been written since, returns count 0.
C19_ClearLogsCompleteness ==
    [][/\ cleared' # cleared =>
             /\ cleared'.count = Held(logs, cleared'.namespace)
             /\ Held(logs', cleared'.namespace) = 0
       /\ (/\ cleared # None
           /\ cleared' = cleared
           /\ logs = cleared.left
           /\ fetchInput' = [namespace |-> cleared.namespace]
           /\ page' # page) => (page'.count = 0 /\ page'.items = <<>>)]_vars

\* the namespace with three records was cleared and then queried
C19_Witness ==
    /\ cleared # None
    /\ cleared.namespace = "spec"
    /\ cleared.count = 3
    /\ logs = cleared.left
    /\ Len(logs) = 1
    /\ fetchInput = [namespace |-> "spec"]
    /\ "count" \in DOMAIN page
    /\ page.count = 0

\* C20: no step of a trigger or fetchLogs call changes or removes a record the
\* store holds, and a clearLogs(ns) call removes records of ns only, the records
\* of every other namespace staying as they are.
C20_AppendOnly ==
    [][\A i \in 1 .. Len(logs) :
          \/ \E j \in 1 .. Len(logs') : logs'[j] = logs[i]
          \/ /\ cleared' # None
             /\ cleared'.held = logs
             /\ cleared'.left = logs'
             /\ cleared'.namespace = logs[i].namespace]_vars

\* a trigger call wrote two records next to the four the store held, and a
\* clearLogs of the other namespace left them all in place
C20_Witness ==
    /\ Len(logs) = 5
    /\ Done
    /\ cleared # None
    /\ cleared.namespace = "other"
    /\ cleared.count = 1
    /\ Held(logs, "spec") = 5


\* C24 as stated: every record written by a trigger call has retryLimit equal to
\* the validated retryLimit of the input (3 when omitted), 0 included.
C24_RecordedLimit ==
    \A i \in 1 .. Len(logs) : logs[i].retryLimit = RequestedLimit

\* C25: a trigger call whose input is valid invokes the transport at most 11
\* times and, every step that can be taken being taken, returns or throws.
C25_Termination ==
    /\ [](fetchCalls <= MaxRetryLimit + 1)
    /\ (pc = "send") ~> (Done \/ Thrown)

\* a call returned after 11 transport invocations
C25_Witness ==
    /\ Done
    /\ fetchCalls = MaxRetryLimit + 1
    /\ attempts = MaxRetryLimit + 1

\* C27 as stated: the record of an attempt the transport answered with an ok
\* response is not a FAIL record, in the store and as the call's result,
\* whatever the store writes of the attempt did.
C27_DeliveredNeverFailed ==
    /\ \A i \in 1 .. Len(logs) : outcomes[i] = "ok" => logs[i].status # "FAIL"
    /\ (Done /\ Last(outcomes) = "ok") => result.status # "FAIL"


\* the metadata of the caller's input ({} when omitted)
RequestedMetadata == IF "metadata" \in DOMAIN input THEN input.metadata ELSE <<>>

\* C28 as stated: every record written by a trigger call, on the response path
\* and on the exception path, has the metadata of the TriggerInput.
C28_MetadataCarried ==
    \A i \in 1 .. Len(logs) : logs[i].metadata = RequestedMetadata


\* C26 as stated: in every compiled plan ':namespace' holds the namespace of the
\* input, whatever the metadata map, and every record fetchLogs returns is of
\* that namespace.
C26_NamespaceIsolation ==
    Compiled =>
        /\ Get(plan.attributeValues, Value("namespace")) = fetchInput.namespace
        /\ \A i \in 1 .. Len(page.items) :
              page.items[i].namespace = fetchInput.namespace

\* the conditions of the plan that are a time range
RangeConditions ==
    {i \in 1 .. Len(plan.queryExpression) : plan.queryExpression[i].op = "BETWEEN"}
    \cup {i \in 1 .. Len(plan.filterExpression) : plan.filterExpression[i].op = "BETWEEN"}

\* the input is valid apart from which of from and to it supplies
ValidButRange ==
    /\ fetchInput # None
    /\ "namespace" \in DOMAIN fetchInput
    /\ "limit" \in DOMAIN fetchInput => fetchInput.limit >= 1
    /\ \A f \in {"from", "to"} \cap DOMAIN fetchInput :
          \E i \in 1 .. Len(DateTimes) : fetchInput[f] = DateTimes[i]

\* the plan compiled for the latest input without its from and to
PlanWithoutRange ==
    QueryOptions(ParseFetchLogsInput(
        Restrict(fetchInput, DOMAIN fetchInput \ {"from", "to"})))

\* C29: a valid input is accepted whichever of from and to it supplies; its plan
\* has a time-range predicate iff it supplies both, and with exactly one of
\* them the plan is the plan of the input without it.
C29_RangeBothOrNeither ==
    ValidButRange =>
        /\ Compiled
        /\ (RangeConditions # {}) <=> RangeGiven
        /\ ~RangeGiven => plan = PlanWithoutRange

\* only from was supplied: the call was accepted and its key condition is the
\* namespace equality alone
C29_Witness ==
    /\ Compiled
    /\ "from" \in DOMAIN fetchInput
    /\ "to" \notin DOMAIN fetchInput
    /\ Len(plan.queryExpression) = 1
    /\ "count" \in DOMAIN page

Reverse(seq) == [i \in 1 .. Len(seq) |-> seq[Len(seq) + 1 - i]]

\* all records the plan selects and its filter passes, read in one direction
AllItems(forward) ==
    StoreQuery(logs, [plan EXCEPT !.scanIndexForward = forward, !.startKey = Null,
                                  !.limit = Len(logs) + 1]).items

\* C30: in every compiled plan the limit is the input's (100 when omitted), the
\* scan is forward iff desc is not true, and the cursor is the input's startKey
\* (null when omitted), whatever the filters; the records read backward are
\* those read forward in reverse order; and fetchLogs returns the count, the
\* lastEvaluatedKey and, in their order, the items of the store's answer.
C30_PagingPassThrough ==
    Compiled =>
        /\ plan.limit = (IF "limit" \in DOMAIN fetchInput THEN fetchInput.limit ELSE 100)
        /\ plan.scanIndexForward = ~("desc" \in DOMAIN fetchInput /\ fetchInput.desc)
        /\ plan.startKey = (IF "startKey" \in DOMAIN fetchInput
                            THEN fetchInput.startKey ELSE Null)
        /\ AllItems(FALSE) = Reverse(AllItems(TRUE))
        /\ page.count = StoreQuery(logs, plan).count
        /\ page.lastEvaluatedKey = StoreQuery(logs, plan).lastEvaluatedKey
        /\ Len(page.items) = page.count
        /\ \A i \in 1 .. Len(page.items) :
              /\ page.items[i] = StoreQuery(logs, plan).items[i]
              /\ \E j \in 1 .. Len(logs) : logs[j] = page.items[i]

\* the second page of a backward scan with limit 2 over three records: the
\* oldest record
C30_Witness ==
    /\ Compiled
    /\ DOMAIN fetchInput = {"namespace", "desc", "limit", "startKey"}
    /\ fetchInput.limit = 2
    /\ ~plan.scanIndexForward
    /\ plan.startKey = fetchInput.startKey
    /\ page.count = 1
    /\ page.items[1].__createdAt = 1
    /\ page.lastEvaluatedKey = Null


\* putLog resolved
Shaped == shaped # None /\ "rejected" \notin DOMAIN shaped

\* C22: for a log input with the required fields putLog and logShape succeed;
\* the record has every field of the schema, each supplied field with its
\* value and each absent optional field with its default (retryCount 0,
\* retryLimit 3, metadata {}, __createdAt and __updatedAt the time of the call);
\* the record putLog returns is the record stored; and shaping it again, later,
\* returns it unchanged.
C22_ShapeDefaults ==
    /\ (shaped # None /\ RequiredLogFields \subseteq DOMAIN partial) => Shaped
    /\ Shaped =>
          /\ DOMAIN shaped = RequiredLogFields \cup DefaultedLogFields
          /\ \A f \in DOMAIN partial : shaped[f] = partial[f]
          /\ "retryCount" \notin DOMAIN partial => shaped.retryCount = 0
          /\ "retryLimit" \notin DOMAIN partial => shaped.retryLimit = 3
          /\ "metadata" \notin DOMAIN partial => shaped.metadata = <<>>
          /\ "__createdAt" \notin DOMAIN partial => shaped.__createdAt = now - 1
          /\ "__updatedAt" \notin DOMAIN partial => shaped.__updatedAt = now - 1
          /\ shaped = Last(logs)
    /\ reshaped # None => reshaped = shaped

\* a log input with no optional field was put and the record reshaped
C22_Witness ==
    /\ DOMAIN partial = RequiredLogFields
    /\ Shaped
    /\ shaped.retryLimit = 3
    /\ shaped.__createdAt = now - 1
    /\ reshaped = shaped
    /\ Len(logs) = 1


\* the latest call was made to the version with an id, whose options name the
\* key by item
ById == "item" \in DOMAIN plan

\* the id selector of the latest call, and whether it asks for a prefix match
SelectorGiven ==
    IF ById THEN "id" \in DOMAIN fetchInput ELSE "idPrefix" \in DOMAIN fetchInput

Selector == IF ById THEN fetchInput.id ELSE fetchInput.idPrefix

\* the residual filter of a lookup by id: the time range, then the metadata
\* equalities, then the status
ResidualFilter ==
    (IF RangeGiven
     THEN <<[path |-> <<"__createdAt">>, op |-> "BETWEEN",
             operands |-> <<fetchInput.from, fetchInput.to>>]>>
     ELSE <<>>)
    \o (IF "metadata" \in DOMAIN fetchInput
        THEN [i \in 1 .. Len(fetchInput.metadata) |->
                 [path |-> <<"metadata", fetchInput.metadata[i][1]>>, op |-> "=",
                  operands |-> <<fetchInput.metadata[i][2]>>]]
        ELSE <<>>)
    \o (IF StatusGiven
        THEN <<[path |-> <<"status">>, op |-> "=", operands |-> <<fetchInput.status>>]>>
        ELSE <<>>)

\* C23 as stated: with an id or id-prefix selector fetchLogs queries the primary
\* key (namespace, id) by exact or prefix match and selects no index; a given
\* time range and status become predicates of the filter, the time range first
\* and the status last; and the index is selected exactly when no selector is
\* given.
C23_IdLookup ==
    Compiled =>
        /\ ("index" \in DOMAIN plan) <=> ~SelectorGiven
        /\ SelectorGiven =>
              /\ IF ById
                 THEN /\ plan.item = [namespace |-> fetchInput.namespace, id |-> Selector]
                      /\ "queryExpression" \notin DOMAIN plan
                 ELSE Resolved(plan.queryExpression, plan) =
                          <<[path |-> <<"namespace">>, op |-> "=",
                             operands |-> <<fetchInput.namespace>>],
                            [path |-> <<"id">>, op |-> "begins_with",
                             operands |-> <<Selector>>]>>
              /\ Resolved(plan.filterExpression, plan) = ResidualFilter


\* the retryCount of the records call c wrote, in the order written
WrittenCounts(c) ==
    [i \in 1 .. Len(calls[c].written) |->
        LET rec == CHOOSE r \in {logs[j] : j \in 1 .. Len(logs)} :
                       r.id = calls[c].written[i]
        IN  rec.retryCount]

\* call c was made and has not returned or thrown
InFlight(c) == calls[c].pc \notin {"idle", "done", "thrown"}

\* C21: in every interleaving of concurrent trigger calls and a fetchLogs call
\* on one store, while a call waits for its backoff timer every other call in
\* flight and the reader can take a step; and each call has made as many
\* attempts and written records with the same retryCount sequence as trigger
\* run alone on the same transport outcomes.
C21_Independence ==
    /\ \A c \in Callers : calls[c].pc = "wait" =>
          \A d \in Callers \ {c} : InFlight(d) => ENABLED CallStep(d)
    /\ ((\E c \in Callers : calls[c].pc = "wait") /\ fetchInput = None) =>
          ENABLED ReaderFetch
    /\ \A c \in Callers : calls[c].args # None =>
          LET alone == Alone(calls[c].args, calls[c].outcomes, 1, 0)
          IN  /\ WrittenCounts(c) = SubSeq(alone, 1, Len(calls[c].written))
              /\ calls[c].pc = "done" =>
                    /\ WrittenCounts(c) = alone
                    /\ calls[c].attempts = Len(alone)

\* both calls were retried, their records interleaved in the store, and the
\* reader ran while one of them waited
C21_Witness ==
    /\ \A c \in Callers :
          /\ calls[c].pc = "done"
          /\ calls[c].attempts = 2
          /\ WrittenCounts(c) = <<0, 1>>
    /\ logs[1].id = calls[1].written[1]
    /\ logs[2].id = calls[2].written[1]
    /\ logs[3].id = calls[1].written[2]
    /\ fetchInput # None
    /\ "count" \in DOMAIN page
    /\ page.count = 2

====
